---- MODULE Spec2Model ----
(***************************************************************************)
(* State-machine model of the Google Maps scrape pipeline:                 *)
(*   scrapers/google_maps_scraper.py  OptimizedGoogleMapsScraper           *)
(*     scrape_single_search            (session driver, retry loop)        *)
(*     _extract_all_cards_sequentially (phase 2, per-card loop)            *)
(*     _extract_from_detail_pane_precise, _safe_extract_text,              *)
(*     _infer_category                 (detail extraction, field parsing)  *)
(* The browser engine (playwright) is the environment: every awaited       *)
(* engine call either completes or raises, chosen nondeterministically.    *)
(*                                                                         *)
(* Specifications:                                                         *)
(*   Spec        one run of scrape_single_search; each phase-2 iteration   *)
(*               is one step                                               *)
(*   SpecPhase2  _extract_all_cards_sequentially alone, each iteration     *)
(*               unfolded into click, wait, extract, accept                *)
(*   SpecServer  the run of Spec awaited by run_async with its timeout     *)
(*   SpecScroll  the scroll loop that auto_scroll_load_all_cards evaluates *)
(*               in the page (scroll_manager.py lines 137-173)             *)
(*   SpecLoader  two runs on one scraper object, each resetting the scroll *)
(*               manager's flag and calling auto_scroll_load_all_cards     *)
(*   SpecExtractor  extractors/data_extractor.py, OptimizedDataExtractor   *)
(*               ._extract_detail_data_with_retry on one card              *)
(*   SpecPage    one attempt on a described page: the loader call unfolded *)
(*               into its discovery attempts, phase 2 into its steps       *)
(*   SpecCategory, SpecInfo, SpecCoordinates                               *)
(*               _infer_category, the info texts of the detail pane and    *)
(*               the coordinate patterns, each applied to drawn arguments  *)
(*   SpecSettle  the run of Spec with the settle wait of each attempt      *)
(*   SpecLive    the run with the loader call unfolded, under weak         *)
(*               fairness of its steps                                     *)
(*   SpecCache   server.py, _handle_scrape_single on two handler threads   *)
(*               sharing self.result_cache                                 *)
(*   SpecJob, SpecJobLive                                                  *)
(*               server.py, _handle_scrape_job_async and the background    *)
(*               threads running _process_job_async; SpecJobLive under     *)
(*               weak fairness of their steps                              *)
(***************************************************************************)
EXTENDS Integers, Sequences, FiniteSets, TLC

VARIABLES
    search_term, area_name, max_results, max_retries,  \* the request
    pc,                  \* position of the run inside scrape_single_search
    retry_count, browser, playwright, context,         \* locals, lines 99-126
    businesses, last_error, total_cards_loaded,
    variation,           \* index into search_variations (line 179)
    exc,                 \* str(e) of the exception being handled (line 240)
    propagating,         \* an exception is leaving scrape_single_search
    result,              \* the dictionary returned to the caller
    sessions,            \* engine side: per created browser, the attempt that
                         \* created it and the calls of close()/stop() on it
    cards_to_process, i, processed_names, p2_businesses, \* locals of phase 2
    cards,               \* len(cards) of the list queried at lines 282-289
    attempts,            \* history: attempts started (loop bodies entered)
    blocked_attempts,    \* history: attempts whose block check returned True
    zero_attempts,       \* history: attempts that loaded zero cards after all variations
    p2_faulted,          \* history: phase 2 of the current attempt hit an engine fault
    biz_attempt,         \* history: attempt (retry_count) that assigned `businesses`
    dup_skipped,         \* history: phase 2 of this attempt skipped a duplicate name
    \* phase 2 unfolded (SpecPhase2)
    open_item,           \* page: index of the item whose detail view is open, -1 if none
    card,                \* local `card` (line 313): the handle about to be clicked
    p2_business,         \* local `business` (line 332): the dict just extracted
    nav_actions,         \* history: card clicks and _return_to_list_safe calls so far
    visited,             \* history: the loop indices whose iteration has begun
    succeeded,           \* history: the dicts that passed the test of line 334
    open_at_click,       \* history: open_item just before the latest card click
    sources,             \* history: per record appended at line 338, the loop
                         \* index it was extracted in and its name
    \* the caller of run_async (SpecServer)
    caller,              \* "waiting", "result" (future.result returned) or "timeout"
    \* the scroll loop in the page (SpecScroll)
    js_pc,               \* "idle", "loop", "counting" (line 171) or "returned"
    target,              \* the %d of line 152: max_results
    totalRounds, prevCount, stableRounds,   \* the loop's variables
    count,               \* the count read in the latest round (line 150)
    scrolls,             \* history: calls of listContainer.scrollBy
    total_cards,         \* the value the evaluate call returns (line 137)
    \* two runs sharing one SmartScrollManager (SpecLoader)
    scroll_container,    \* self.scroll_container: None or True
    flag_writer,         \* history: the run that last assigned scroll_container
    page,                \* per run: what its own page shows
    loader,              \* per run: the frame of its auto_scroll_load_all_cards call
    \* _extract_detail_data_with_retry on one card (SpecExtractor)
    x_pc,                \* "idle", "attempt", "wait", "fields", "returned"
    attempt,             \* the loop variable of data_extractor.py line 116
    detail_data,         \* the dict of line 132
    x_result,            \* the dict returned by _extract_detail_data_with_retry
    x_clicks,            \* history: clicks on the card's detail link
    x_force_closes,      \* history: calls of _force_close_detail_pane
    x_timeouts,          \* history: render waits that returned False
    \* one call of a field parser (SpecCategory, SpecInfo, SpecCoordinates)
    fn_pc,               \* "idle", "called" or "returned"
    fn_arg,              \* the arguments of the call
    fn_ret,              \* the value returned: None until the call returns
    \* the settle wait of each attempt (SpecSettle)
    random_wait,         \* local random_wait (line 140), in milliseconds
    settle_waits,        \* history: per wait of line 141, retry_count and the delay
    \* server.py: the handler threads of /scrape-single and their cache (SpecCache)
    result_cache,        \* self.result_cache: cache_key -> [timestamp, data]
    dicts,               \* the response dicts ever built, by identity
    handler,             \* per handler thread: its frame in _handle_scrape_single
    clock,               \* time.time(), in seconds
    supabase,            \* server.py line 27: the client, None, or not yet created
    jobs                 \* per request to /scrape-job-async: its frame

vars == << search_term, area_name, max_results, max_retries, pc, retry_count,
           browser, playwright, context, businesses, last_error,
           total_cards_loaded, variation, exc, propagating, result, sessions,
           cards_to_process, i, processed_names, p2_businesses, cards,
           attempts, blocked_attempts, zero_attempts, p2_faulted, biz_attempt,
           dup_skipped, open_item, card, p2_business, nav_actions, visited,
           succeeded, open_at_click, sources, caller, js_pc, target, totalRounds,
           prevCount, stableRounds, count, scrolls, total_cards,
           scroll_container, flag_writer, page, loader, x_pc, attempt,
           detail_data, x_result, x_clicks, x_force_closes, x_timeouts,
           fn_pc, fn_arg, fn_ret, random_wait, settle_waits, result_cache,
           dicts, handler, clock, supabase, jobs >>

driverVars == << retry_count, browser, playwright, context, businesses,
                 last_error, total_cards_loaded, variation, exc, propagating,
                 result, sessions >>
requestVars == << search_term, area_name, max_results, max_retries >>
p2Vars == << cards_to_process, i, processed_names, p2_businesses, cards >>
histVars == << attempts, blocked_attempts, zero_attempts, p2_faulted,
               biz_attempt, dup_skipped >>
detailVars == << open_item, card, p2_business, nav_actions, visited, succeeded,
                 open_at_click, sources >>
scrollVars == << js_pc, target, totalRounds, prevCount, stableRounds, count,
                 scrolls, total_cards >>
loaderVars == << scroll_container, flag_writer, page, loader >>
extractorVars == << x_pc, attempt, detail_data, x_result, x_clicks,
                    x_force_closes, x_timeouts >>
parserVars == << fn_pc, fn_arg, fn_ret >>
settleVars == << random_wait, settle_waits >>
cacheVars == << result_cache, dicts, handler, clock >>
\* the database client and the background jobs of /scrape-job-async
jobVars == << supabase, jobs >>
serverVars == << cacheVars, jobVars >>
\* state that the steps of scrape_single_search, as Spec takes them, leave
\* alone: the caller, the callees modelled on their own, and the settle wait
outerVars == << caller, scrollVars, loaderVars, extractorVars, parserVars,
               settleVars, serverVars >>
\* the whole frame of one run of scrape_single_search
runVars == << requestVars, pc, driverVars, p2Vars, histVars, detailVars >>
besidesScroll == << runVars, caller, loaderVars, extractorVars, parserVars,
                   settleVars, serverVars >>
besidesLoader == << runVars, caller, scrollVars, extractorVars, parserVars,
                   settleVars, serverVars >>
besidesExtractor == << runVars, caller, scrollVars, loaderVars, parserVars,
                      settleVars, serverVars >>
besidesCaller == << runVars, scrollVars, loaderVars, extractorVars, parserVars,
                   settleVars, serverVars >>
besidesParser == << runVars, caller, scrollVars, loaderVars, extractorVars,
                   settleVars, serverVars >>
besidesServer == << runVars, caller, scrollVars, loaderVars, extractorVars,
                   parserVars, settleVars >>
besidesSettle == << caller, scrollVars, loaderVars, extractorVars, parserVars, serverVars,
                   detailVars >>

(***************************************************************************)
(* Bounds of the model.                                                    *)
(***************************************************************************)
MaxRetries == 1     \* largest max_retries a request carries
MaxResults == 2     \* largest max_results a request carries
MaxCards == 2       \* most result cards the page exposes to a query
MaxDomCards == 17   \* most cards the scroll loop counts in the page

\* len(search_variations), the list literal of lines 173-177
NumVariations == 3

SearchTerms == {"", "Pharmacy 24", "cafe"}
AreaNames == {"", "Lahore"}
\* str(e) of an engine fault; an exception may carry an empty message
Msgs == {"", "Timeout 30000ms exceeded"}

(***************************************************************************)
(* Python values.  Optional[T] is a sequence: <<>> is None, <<v>> is v.    *)
(***************************************************************************)
None == <<>>
Some(v) == <<v>>
\* Python truthiness of an Optional[str]
Truthy(o) == o # None /\ o[1] # ""

UpperAlpha == "ABCDEFGHIJKLMNOPQRSTUVWXYZ"
LowerAlpha == "abcdefghijklmnopqrstuvwxyz"
Char(s, k) == SubSeq(s, k, k)

\* str.lower() on one character
LowerChar(c) ==
    IF \E k \in 1..Len(UpperAlpha) : Char(UpperAlpha, k) = c
    THEN Char(LowerAlpha, CHOOSE k \in 1..Len(UpperAlpha) : Char(UpperAlpha, k) = c)
    ELSE c

RECURSIVE Lower(_)
\* str.lower()
Lower(s) == IF s = "" THEN "" ELSE LowerChar(Char(s, 1)) \o Lower(SubSeq(s, 2, Len(s)))

IsSpace(c) == c = " "

RECURSIVE LStrip(_)
LStrip(s) == IF s # "" /\ IsSpace(Char(s, 1)) THEN LStrip(SubSeq(s, 2, Len(s))) ELSE s

RECURSIVE RStrip(_)
RStrip(s) == IF s # "" /\ IsSpace(Char(s, Len(s))) THEN RStrip(SubSeq(s, 1, Len(s) - 1)) ELSE s

\* str.strip()
Strip(s) == RStrip(LStrip(s))

\* `key in s` for strings
Contains(s, key) ==
    \E k \in 1..(Len(s) - Len(key) + 1) : SubSeq(s, k, k + Len(key) - 1) = key

Min(a, b) == IF a <= b THEN a ELSE b

(***************************************************************************)
(* float(text) on a plain decimal literal: optional sign, digits, optional *)
(* fraction.  The value is the exact decimal m / 10^s.  Any other text     *)
(* raises ValueError, which is None here.                                  *)
(***************************************************************************)
Digits == "0123456789"
IsDigit(c) == \E k \in 1..Len(Digits) : Char(Digits, k) = c
DigitVal(c) == (CHOOSE k \in 1..Len(Digits) : Char(Digits, k) = c) - 1

RECURSIVE AllDigits(_)
AllDigits(s) == s = "" \/ (IsDigit(Char(s, 1)) /\ AllDigits(SubSeq(s, 2, Len(s))))

RECURSIVE ToInt(_)
ToInt(s) == IF s = "" THEN 0 ELSE 10 * ToInt(SubSeq(s, 1, Len(s) - 1)) + DigitVal(Char(s, Len(s)))

RECURSIVE Pow10(_)
Pow10(n) == IF n = 0 THEN 1 ELSE 10 * Pow10(n - 1)

\* position of the first "." in s, or Len(s) + 1
DotPos(s) ==
    IF \E k \in 1..Len(s) : Char(s, k) = "."
    THEN CHOOSE k \in 1..Len(s) : Char(s, k) = "." /\ \A j \in 1..(k - 1) : Char(s, j) # "."
    ELSE Len(s) + 1

ParseUnsigned(s) ==
    LET d == DotPos(s)
        ip == SubSeq(s, 1, d - 1)
        fp == SubSeq(s, d + 1, Len(s))
    IN  IF AllDigits(ip) /\ AllDigits(fp) /\ Len(ip) + Len(fp) > 0
        THEN Some([m |-> ToInt(ip \o fp), s |-> Len(fp)])
        ELSE None

ParseFloat(text) ==
    LET t == Strip(text)
        signed == t # "" /\ Char(t, 1) \in {"-", "+"}
        body == IF signed THEN SubSeq(t, 2, Len(t)) ELSE t
        u == ParseUnsigned(body)
    IN  IF u = None THEN None
        ELSE IF signed /\ Char(t, 1) = "-"
             THEN Some([m |-> 0 - u[1].m, s |-> u[1].s])
             ELSE u

\* 0 <= r <= 5 for the decimal r = m / 10^s
InRatingRange(r) == 0 <= r.m /\ r.m <= 5 * Pow10(r.s)

(***************************************************************************)
(* The detail pane the page shows when a card is read: what each selector  *)
(* of _extract_from_detail_pane_precise finds.  An Optional text is the    *)
(* inner_text of the element, None when the element is absent.             *)
(***************************************************************************)
Pane(root, nm, cat, rblock, rtext, flt) ==
    [root |-> root, name |-> nm, category |-> cat, rating_block |-> rblock,
     rating |-> rtext, fault |-> flt]

Panes == {
    Pane(TRUE, None, None, FALSE, None, TRUE),                          \* query_selector raises
    Pane(FALSE, None, None, FALSE, None, FALSE),                        \* no .TIHn2 root
    Pane(TRUE, None, Some("Cafe"), FALSE, None, FALSE),                 \* no name element
    Pane(TRUE, Some("   "), None, FALSE, None, FALSE),                  \* blank name
    Pane(TRUE, Some(" Cafe "), Some("Coffee shop"), TRUE, Some("abc"), FALSE),
    Pane(TRUE, Some("CAFE"), None, TRUE, Some("7.3"), FALSE),           \* rating above 5
    Pane(TRUE, Some("Inn"), Some("  "), TRUE, Some("4.5"), FALSE),      \* blank category
    Pane(TRUE, Some("inn"), Some("Bar"), FALSE, Some("4.0"), FALSE) }   \* no rating block

\* _safe_extract_text: None when the element is absent or its text is empty,
\* else the stripped text (which may be "")
safe_extract_text(el) ==
    IF el = None \/ el[1] = "" THEN None ELSE Some(Strip(el[1]))

\* category_mappings, in insertion order
category_mappings == <<
    <<"car rental", "Car Rental Agency">>,
    <<"rent a car", "Car Rental Agency">>,
    <<"restaurant", "Restaurant">>,
    <<"hotel", "Hotel">>,
    <<"pharmacy", "Pharmacy">>,
    <<"hospital", "Hospital">>,
    <<"clinic", "Medical Clinic">>,
    <<"diagnostic center", "Diagnostic Center">>,
    <<"bank", "Bank">>,
    <<"gas station", "Gas Station">>,
    <<"grocery", "Grocery Store">> >>

\* category_mappings of OptimizedDataExtractor._infer_category
\* (data_extractor.py lines 423-434), in insertion order: the mapping above
\* without 'diagnostic center'
category_mappings_extractor == <<
    <<"car rental", "Car Rental Agency">>,
    <<"rent a car", "Car Rental Agency">>,
    <<"restaurant", "Restaurant">>,
    <<"hotel", "Hotel">>,
    <<"pharmacy", "Pharmacy">>,
    <<"hospital", "Hospital">>,
    <<"clinic", "Medical Clinic">>,
    <<"bank", "Bank">>,
    <<"gas station", "Gas Station">>,
    <<"grocery", "Grocery Store">> >>

\* the first value, in insertion order, whose key is in `text`; "Business"
\* when there is none (the loop of lines 555-559)
first_match(mappings, text) ==
    LET hits == {k \in 1..Len(mappings) : Contains(text, mappings[k][1])}
    IN  IF hits = {} THEN "Business"
        ELSE mappings[CHOOSE k \in hits : \A j \in hits : k <= j][2]

\* OptimizedDataExtractor._infer_category (data_extractor.py lines 419-440)
infer_category_extractor(term) ==
    first_match(category_mappings_extractor, Lower(term))

\* an inference that matches the keywords against the term as typed
infer_category_cased(term) == first_match(category_mappings, term)

\* _infer_category
infer_category(term) ==
    LET search_lower == Lower(term)
        hits == {k \in 1..Len(category_mappings) :
                    Contains(search_lower, category_mappings[k][1])}
    IN  IF hits = {} THEN "Business"
        ELSE category_mappings[CHOOSE k \in hits : \A j \in hits : k <= j][2]

\* business['rating'] as lines 393-401 leave it: the key is set only when the
\* rating block and a non-empty rating text exist; float(text), or None when
\* float raises
rating_field(pane) ==
    LET rating_text == safe_extract_text(pane.rating)
    IN  IF pane.rating_block /\ Truthy(rating_text)
        THEN "rating" :> ParseFloat(rating_text[1])
        ELSE <<>>

\* the category without the fallback of lines 458-460: a missing or blank
\* category stays empty
category_field_no_fallback(pane, term) ==
    LET category == safe_extract_text(pane.category)
    IN  IF category = None THEN "" ELSE category[1]

\* category after the fallback of lines 458-460
category_field(pane, term) ==
    LET category == safe_extract_text(pane.category)
    IN  IF ~Truthy(category) THEN infer_category(term) ELSE category[1]

\* _extract_from_detail_pane_precise: the business dict, or a dict with `error`
extract_from_detail_pane_precise(pane, term) ==
    IF pane.fault THEN [error |-> "Detail extraction failed"]
    ELSE IF ~pane.root THEN [error |-> "No detail pane root found"]
    ELSE LET nm == safe_extract_text(pane.name)
         IN  IF ~Truthy(nm) THEN [error |-> "No business name found in detail pane"]
             ELSE ("name" :> nm[1]) @@ ("category" :> category_field(pane, term))
                  @@ rating_field(pane)

\* the test of line 334: business and business.get('name') and not business.get('error')
extraction_ok(business) ==
    /\ "name" \in DOMAIN business
    /\ business.name # ""
    /\ "error" \notin DOMAIN business

\* a de-dup that compares the names as extracted, without lower-casing
name_key_raw(nm) == nm

\* the de-dup key of line 336
name_key(nm) == Lower(nm)

\* The two operators above tabulated over the inputs the model enumerates
\* (evaluated once): the dict extracted from each pane under each search
\* term, and the key of each extracted name.
Extracted == [t \in SearchTerms |-> [p \in Panes |-> extract_from_detail_pane_precise(p, t)]]
ExtractedDicts == {Extracted[t][p] : t \in SearchTerms, p \in Panes}
ExtractedNames == {d.name : d \in {e \in ExtractedDicts : "name" \in DOMAIN e}}
NameKey == [nm \in ExtractedNames |-> name_key(nm)]

(***************************************************************************)
(* scrape_single_search: state after the locals of lines 85-103 are set.   *)
(***************************************************************************)
NoResult == [pending |-> TRUE]

\* phase 2 is not unfolded: its step-level locals and histories stay unset
DetailIdle ==
    /\ open_item = -1
    /\ card = None
    /\ p2_business = None
    /\ nav_actions = 0
    /\ visited = <<>>
    /\ succeeded = <<>>
    /\ open_at_click = -1
    /\ sources = <<>>

\* no scroll loop is being evaluated
ScrollIdle ==
    /\ js_pc = "idle"
    /\ target = 0
    /\ totalRounds = 0
    /\ prevCount = 0
    /\ stableRounds = 0
    /\ count = 0
    /\ scrolls = 0
    /\ total_cards = 0

\* the runs that share one scraper object
Runs == {"A", "B"}

\* max_retries of auto_scroll_load_all_cards (scroll_manager.py line 105)
DiscoveryLimit == 3

\* the frame of a loader call that has not begun
LoaderFrame ==
    [pc |-> "call",        \* "call", "finding", "waiting", "scrolling", "returned", "raised"
     retry_count |-> 0,    \* line 104
     finds |-> 0,          \* history: calls of find_scrollable_container
     waits |-> 0,          \* history: waits of line 114
     container |-> FALSE,  \* window._mapsListContainer is set in this run's page
     foreign |-> FALSE,    \* history: read scroll_container as another run left it
     faulted |-> FALSE,    \* history: an engine call of this run raised
     loaded |-> -1]        \* the value returned

\* no loader call is modelled
LoaderIdle ==
    /\ scroll_container = None
    /\ flag_writer = "none"
    /\ page = [r \in Runs |-> [cards |-> 0, discover |-> <<FALSE, FALSE, FALSE>>]]
    /\ loader = [r \in Runs |-> LoaderFrame]

\* no call of the detail extractor is modelled
ExtractorIdle ==
    /\ x_pc = "idle"
    /\ attempt = 0
    /\ detail_data = <<>>
    /\ x_result = [pending |-> TRUE]
    /\ x_clicks = 0
    /\ x_force_closes = 0
    /\ x_timeouts = 0

\* no parser call is modelled
ParserIdle ==
    /\ fn_pc = "idle"
    /\ fn_arg = None
    /\ fn_ret = None

\* the handler threads of the server
Threads == {"h1", "h2"}

\* the frame of a handler thread that has not read its request
HandlerFrame ==
    [pc |-> "idle",
     data |-> <<>>,           \* request.get_json()
     response_data |-> 0,     \* the dict built at line 127 or read at line 113
     path |-> "none",         \* history: how the response came about
     age |-> 0,               \* history: the age computed at line 113
     response |-> <<>>]       \* what jsonify made of the dict

\* the requests to /scrape-job-async that are told apart
Jobs == {"r1", "r2"}

\* a request to /scrape-job-async that has not been read
JobFrame ==
    [pc |-> "idle",
     data |-> <<>>,           \* request.get_json()
     thread |-> FALSE,        \* the background thread was started
     status |-> "pending",    \* the status column of the job's row
     result |-> <<>>,         \* what run_async returned
     inserted |-> FALSE,      \* businesses_inserted > 0
     sends |-> 0,             \* history: calls of requests.post
     response |-> 0]          \* the status code of the answer

\* no request is being handled
ServerIdle ==
    /\ result_cache = <<>>
    /\ dicts = <<>>
    /\ handler = [t \in Threads |-> HandlerFrame]
    /\ clock = 0
    /\ supabase = "unset"
    /\ jobs = [j \in Jobs |-> JobFrame]

\* the settle waits are not recorded
SettleIdle ==
    /\ random_wait = 0
    /\ settle_waits = <<>>

\* nothing outside the run is in progress; its caller waits
OuterIdle ==
    /\ caller = "waiting"
    /\ ParserIdle
    /\ SettleIdle
    /\ ServerIdle
    /\ ScrollIdle
    /\ LoaderIdle
    /\ ExtractorIdle

Init ==
    /\ DetailIdle
    /\ OuterIdle
    /\ search_term \in SearchTerms
    /\ area_name \in AreaNames
    /\ max_results \in 1..MaxResults
    /\ max_retries \in 0..MaxRetries
    /\ pc = "start"
    /\ retry_count = 0
    /\ browser = 0
    /\ playwright = 0
    /\ context = 0
    /\ businesses = <<>>
    /\ last_error = None
    /\ total_cards_loaded = 0
    /\ variation = 0
    /\ exc = ""
    /\ propagating = FALSE
    /\ result = NoResult
    /\ sessions = <<>>
    /\ cards_to_process = 0
    /\ cards = 0
    /\ i = 0
    /\ processed_names = {}
    /\ p2_businesses = <<>>
    /\ attempts = 0
    /\ blocked_attempts = 0
    /\ zero_attempts = 0
    /\ p2_faulted = FALSE
    /\ biz_attempt = -1
    /\ dup_skipped = FALSE

\* an awaited engine call inside the try of line 108 raises: control goes to
\* the handler of line 240 with str(e) = msg
Raise(msg) ==
    /\ pc' = "except"
    /\ exc' = msg

\* `return d` inside the try of line 105: the finally block runs next
Return(d) ==
    /\ result' = d
    /\ pc' = "finally"

\* a validation that looks at the search term only
ValidateTermOnly ==
    /\ pc = "start"
    /\ IF search_term = ""
       THEN /\ result' = [success |-> FALSE,
                          error |-> "search_term and area_name are required",
                          businesses |-> <<>>]
            /\ pc' = "done"
       ELSE /\ pc' = "loop"
            /\ UNCHANGED result
    /\ UNCHANGED << requestVars, outerVars, detailVars, retry_count, browser,
                    playwright, context, businesses, last_error,
                    total_cards_loaded, variation, exc, propagating, sessions,
                    p2Vars, histVars >>

\* lines 90-95: the request is rejected before the try block is entered
Validate ==
    /\ pc = "start"
    /\ IF search_term = "" \/ area_name = ""
       THEN /\ result' = [success |-> FALSE,
                          error |-> "search_term and area_name are required",
                          businesses |-> <<>>]
            /\ pc' = "done"
       ELSE /\ pc' = "loop"
            /\ UNCHANGED result
    /\ UNCHANGED << requestVars, outerVars, detailVars, retry_count, browser, playwright, context,
                    businesses, last_error, total_cards_loaded, variation, exc,
                    propagating, sessions, p2Vars, histVars >>

\* line 107: while retry_count <= max_retries.  total_cards_loaded of the
\* previous attempt is not read again before line 165 reassigns it; the model
\* forgets it here.
LoopHead ==
    /\ pc = "loop"
    /\ IF retry_count <= max_retries
       THEN /\ pc' = "close_prev"
            /\ attempts' = attempts + 1
            /\ p2_faulted' = FALSE
            /\ dup_skipped' = FALSE
            /\ total_cards_loaded' = 0
       ELSE /\ pc' = "all_failed"
            /\ UNCHANGED << attempts, p2_faulted, dup_skipped, total_cards_loaded >>
    /\ UNCHANGED << requestVars, outerVars, detailVars, retry_count, browser, playwright, context,
                    businesses, last_error, variation, exc, propagating, result,
                    sessions, p2Vars, blocked_attempts, zero_attempts,
                    biz_attempt >>

\* browser.close() then playwright.stop() in one try: close() is called on
\* browser b; stop() is called on playwright p only if close() did not raise
\* and p is set.  A raise of stop() itself changes nothing further.
CloseSession(ss, b, p, close_ok) ==
    [k \in 1..Len(ss) |->
        [attempt |-> ss[k].attempt,
         closes |-> ss[k].closes + (IF k = b THEN 1 ELSE 0),
         stops |-> ss[k].stops + (IF k = p /\ close_ok THEN 1 ELSE 0)]]

\* lines 109-120: the retry wait, then the previous browser is closed
ClosePrevious ==
    /\ pc = "close_prev"
    /\ IF browser # 0
       THEN \E close_ok \in BOOLEAN :
                sessions' = CloseSession(sessions, browser, playwright, close_ok)
       ELSE UNCHANGED sessions
    /\ pc' = "create"
    /\ UNCHANGED << requestVars, outerVars, detailVars, retry_count, browser, playwright, context,
                    businesses, last_error, total_cards_loaded, variation, exc,
                    propagating, result, p2Vars, histVars >>

\* a driver that launches a browser only when it holds none, and keeps the
\* one of the previous attempt otherwise
CreateBrowserOnce ==
    /\ pc = "create"
    /\ IF browser # 0
       THEN /\ pc' = "context"
            /\ UNCHANGED << sessions, browser, playwright, exc >>
       ELSE /\ sessions' = Append(sessions, [attempt |-> attempts, closes |-> 0, stops |-> 0])
            /\ browser' = Len(sessions) + 1
            /\ playwright' = Len(sessions) + 1
            /\ pc' = "context"
            /\ UNCHANGED exc
    /\ UNCHANGED << requestVars, outerVars, detailVars, retry_count, context, businesses, last_error,
                    total_cards_loaded, variation, propagating, result, p2Vars,
                    histVars >>

\* line 123 and _create_fresh_browser: playwright start, then chromium launch;
\* either may raise, and the handler of line 75 re-raises: no browser and no
\* playwright handle reaches the driver then.
CreateFreshBrowser ==
    /\ pc = "create"
    /\ \/ /\ sessions' = Append(sessions, [attempt |-> attempts, closes |-> 0, stops |-> 0])
          /\ browser' = Len(sessions) + 1
          /\ playwright' = Len(sessions) + 1
          /\ pc' = "context"
          /\ UNCHANGED exc
       \/ \E msg \in Msgs :
          /\ Raise(msg)
          /\ UNCHANGED << sessions, browser, playwright >>
    /\ UNCHANGED << requestVars, outerVars, detailVars, retry_count, context, businesses, last_error,
                    total_cards_loaded, variation, propagating, result, p2Vars,
                    histVars >>

\* lines 126-130: create_stealth_context and new_page may raise;
\* apply_stealth_measures swallows its own faults
CreateContext ==
    /\ pc = "context"
    /\ \/ /\ context' = browser
          /\ pc' = "goto"
          /\ UNCHANGED exc
       \/ \E msg \in Msgs :
          /\ Raise(msg)
          /\ UNCHANGED context
    /\ UNCHANGED << requestVars, outerVars, detailVars, retry_count, browser, playwright, businesses,
                    last_error, total_cards_loaded, variation, propagating,
                    result, sessions, p2Vars, histVars >>

\* lines 133-141: page.goto and the settle wait
Navigate ==
    /\ pc = "goto"
    /\ \/ /\ pc' = "check_blocked"
          /\ UNCHANGED exc
       \/ \E msg \in Msgs : Raise(msg)
    /\ UNCHANGED << requestVars, outerVars, detailVars, retry_count, browser, playwright, context,
                    businesses, last_error, total_cards_loaded, variation,
                    propagating, result, sessions, p2Vars, histVars >>

\* the dictionary of lines 152-159
BlockedResult ==
    [success |-> FALSE,
     error |-> "Google Maps is blocking requests",
     businesses |-> <<>>,
     search_term |-> search_term,
     area_name |-> area_name,
     note |-> "Rate limited or detected as bot"]

\* lines 144-162: check_if_blocked never raises (it returns False on a fault);
\* when blocked the context is closed, which may raise
CheckBlocked ==
    /\ pc = "check_blocked"
    /\ \E is_blocked \in BOOLEAN :
       IF is_blocked
       THEN /\ blocked_attempts' = blocked_attempts + 1
            /\ \/ \E msg \in Msgs :
                  /\ Raise(msg)
                  /\ UNCHANGED << retry_count, result >>
               \/ IF retry_count < max_retries
                  THEN /\ retry_count' = retry_count + 1
                       /\ pc' = "loop"
                       /\ UNCHANGED << exc, result >>
                  ELSE /\ Return(BlockedResult)
                       /\ UNCHANGED << exc, retry_count >>
       ELSE /\ pc' = "phase1"
            /\ UNCHANGED << blocked_attempts, retry_count, exc, result >>
    /\ UNCHANGED << requestVars, outerVars, detailVars, browser, playwright, context, businesses,
                    last_error, total_cards_loaded, variation, propagating,
                    sessions, p2Vars, attempts, zero_attempts,
                    p2_faulted, biz_attempt, dup_skipped >>

\* what auto_scroll_load_all_cards can return to the driver: the card count
\* (0 when no container is found or nothing loaded)
LoadedCounts == 0..MaxCards

\* line 165: phase 1.  The loader's wait between container-discovery attempts
\* (scroll_manager.py line 114) is outside its try blocks and may raise.
Phase1 ==
    /\ pc = "phase1"
    /\ \/ \E n \in LoadedCounts :
          /\ total_cards_loaded' = n
          /\ IF n = 0
             THEN pc' = "variations" /\ variation' = 1
             ELSE pc' = "p2_start" /\ UNCHANGED variation
          /\ UNCHANGED exc
       \/ \E msg \in Msgs :
          /\ Raise(msg)
          /\ UNCHANGED << total_cards_loaded, variation >>
    /\ UNCHANGED << requestVars, outerVars, detailVars, retry_count, browser, playwright, context,
                    businesses, last_error, propagating, result, sessions, p2Vars, histVars >>

\* a variation loop that starts over after a fault
VariationFaultRestarts ==
    /\ UNCHANGED << total_cards_loaded, exc >>
    /\ pc' = "variations"
    /\ variation' = 1

\* a variation loop without the handler of line 193: the fault reaches the
\* handler of the attempt
VariationFaultAborts ==
    /\ \E msg \in Msgs : Raise(msg)
    /\ UNCHANGED << total_cards_loaded, variation >>

\* lines 193-195: a fault of goto, of the wait or of the loader inside a
\* variation is caught and the loop goes on with the next variation
VariationFault ==
    /\ UNCHANGED << total_cards_loaded, exc >>
    /\ IF variation = NumVariations
       THEN pc' = "after_variations" /\ variation' = 0
       ELSE pc' = "variations" /\ variation' = variation + 1

\* lines 179-195: one search variation on the same page.  A fault of goto, of
\* the wait or of the loader is caught at line 193 and the next variation is
\* tried; a variation that loads cards ends the loop (the loop index is
\* forgotten then).
TryVariation ==
    /\ pc = "variations"
    /\ \/ \E n \in LoadedCounts :
          /\ total_cards_loaded' = n
          /\ IF n > 0 \/ variation = NumVariations
             THEN pc' = "after_variations" /\ variation' = 0
             ELSE pc' = "variations" /\ variation' = variation + 1
          /\ UNCHANGED exc
       \/ VariationFault
    /\ UNCHANGED << requestVars, outerVars, detailVars, retry_count, browser, playwright, context,
                    businesses, last_error, propagating, result, sessions, p2Vars, histVars >>

\* the dictionary of lines 207-217
EmptyResult ==
    [success |-> TRUE,
     businesses |-> <<>>,
     total_found |-> 0,
     cards_loaded |-> 0,
     search_term |-> search_term,
     area_name |-> area_name,
     extraction_method |-> "Two-Phase (Scroll + Sequential Detail Extraction)",
     note |-> "No results found after multiple attempts and search variations",
     retry_count |-> retry_count]

\* lines 197-217: after the variations.  Still zero cards: retry with a fresh
\* browser while retries remain, else return the empty success; either way
\* the context is closed first, which may raise.
AfterVariations ==
    /\ pc = "after_variations"
    /\ IF total_cards_loaded = 0
       THEN /\ zero_attempts' = zero_attempts + 1
            /\ \/ \E msg \in Msgs :
                  /\ Raise(msg)
                  /\ UNCHANGED << retry_count, result >>
               \/ IF retry_count < max_retries
                  THEN /\ retry_count' = retry_count + 1
                       /\ pc' = "loop"
                       /\ UNCHANGED << exc, result >>
                  ELSE /\ Return(EmptyResult)
                       /\ UNCHANGED << exc, retry_count >>
       ELSE /\ pc' = "p2_start"
            /\ UNCHANGED << zero_attempts, retry_count, exc, result >>
    /\ UNCHANGED << requestVars, outerVars, detailVars, browser, playwright, context, businesses,
                    last_error, total_cards_loaded, variation, propagating,
                    sessions, p2Vars, attempts, blocked_attempts,
                    p2_faulted, biz_attempt, dup_skipped >>

(***************************************************************************)
(* Phase 2: _extract_all_cards_sequentially, called at line 221.           *)
(***************************************************************************)
\* line 221: `businesses = <value returned by phase 2>`
AssignBusinesses(list) ==
    /\ businesses' = list
    /\ biz_attempt' = retry_count
    /\ pc' = "close_ctx"

\* phase 2 without the handler of lines 369-371: the fault reaches the driver
P2QueryFaultPropagates ==
    /\ \E msg \in Msgs : Raise(msg)
    /\ p2_faulted' = TRUE
    /\ UNCHANGED << businesses, biz_attempt >>

\* lines 369-371: an engine fault that escapes the per-card handling (the
\* first query of the cards raising) is caught inside phase 2, which returns []
P2QueryFault ==
    /\ AssignBusinesses(<<>>)
    /\ p2_faulted' = TRUE
    /\ UNCHANGED exc

\* a loop over every card of the list, whatever the request asks for
all_cards(n) == n

\* line 296: min(len(cards), max_results)
min_cards(n) == Min(n, max_results)

\* lines 278-301: the first query of the cards.  No cards after the second
\* look (line 289) returns []; n is the number of cards the deciding query
\* returned.
P2Start ==
    /\ pc = "p2_start"
    /\ \/ /\ P2QueryFault
          /\ UNCHANGED p2Vars
       \/ \E n \in 0..MaxCards :
          IF n = 0
          THEN /\ AssignBusinesses(<<>>)
               /\ UNCHANGED << p2Vars, p2_faulted, exc >>
          ELSE /\ cards' = n
               /\ cards_to_process' = min_cards(n)
               /\ i' = 0
               /\ processed_names' = {}
               /\ p2_businesses' = <<>>
               /\ pc' = "p2_card"
               /\ UNCHANGED << businesses, biz_attempt, p2_faulted, exc >>
    /\ UNCHANGED << requestVars, outerVars, detailVars, retry_count, browser, playwright, context,
                    last_error, total_cards_loaded, variation, propagating,
                    result, sessions, attempts, blocked_attempts,
                    zero_attempts, dup_skipped >>

\* how iteration i of the loop of line 303 can go before a pane is read:
\*   gone     the re-fetched list is shorter than i+1 (line 309)
\*   fault    re-fetch, scroll or click raises (handler of line 359)
\*   timeout  the detail pane does not render (line 326)
\*   read     the pane rendered and is extracted (line 332)
CardOutcomes == {"gone", "fault", "timeout", "read"}

\* a loop that puts each new record in front of the ones it already holds
AcceptBusinessFirst(business) ==
    IF NameKey[business.name] \notin processed_names
    THEN /\ processed_names' = processed_names \cup {NameKey[business.name]}
         /\ p2_businesses' = <<business>> \o p2_businesses
         /\ UNCHANGED dup_skipped
    ELSE /\ dup_skipped' = TRUE
         /\ UNCHANGED << processed_names, p2_businesses >>

\* lines 334-348: append unless the lower-cased name was seen in this run
AcceptBusiness(business) ==
    IF NameKey[business.name] \notin processed_names
    THEN /\ processed_names' = processed_names \cup {NameKey[business.name]}
         /\ p2_businesses' = Append(p2_businesses, business)
         /\ UNCHANGED dup_skipped
    ELSE /\ dup_skipped' = TRUE
         /\ UNCHANGED << processed_names, p2_businesses >>

\* lines 303-362: one iteration of the per-card loop.  Every fault inside the
\* iteration is caught there; _return_to_list_safe swallows its own faults.
P2Card ==
    /\ pc = "p2_card"
    /\ i < cards_to_process
    /\ \E outcome \in CardOutcomes :
       IF outcome = "read"
       THEN \E pane \in Panes :
            LET business == Extracted[search_term][pane]
            IN  IF extraction_ok(business)
                THEN AcceptBusiness(business)
                ELSE UNCHANGED << processed_names, p2_businesses, dup_skipped >>
       ELSE UNCHANGED << processed_names, p2_businesses, dup_skipped >>
    /\ i' = i + 1
    /\ UNCHANGED << requestVars, outerVars, detailVars, pc, driverVars, cards_to_process, cards, attempts,
                    blocked_attempts, zero_attempts, p2_faulted, biz_attempt >>

\* line 367: the loop is over and phase 2 returns its list; its locals die
P2Return ==
    /\ pc = "p2_card"
    /\ i >= cards_to_process
    /\ AssignBusinesses(p2_businesses)
    /\ cards_to_process' = 0
    /\ cards' = 0
    /\ i' = 0
    /\ processed_names' = {}
    /\ p2_businesses' = <<>>
    /\ UNCHANGED << requestVars, outerVars, detailVars, retry_count, browser, playwright, context,
                    last_error, total_cards_loaded, variation, exc, propagating,
                    result, sessions, attempts, blocked_attempts, zero_attempts,
                    p2_faulted, dup_skipped >>

\* the dictionary of lines 228-238
SuccessResult ==
    [success |-> TRUE,
     businesses |-> businesses,
     total_found |-> Len(businesses),
     cards_loaded |-> total_cards_loaded,
     search_term |-> search_term,
     area_name |-> area_name,
     extraction_method |-> "Two-Phase (Scroll + Sequential Detail Extraction)",
     retry_count |-> retry_count,
     fresh_browser |-> TRUE]

\* lines 225-238: close the context (which may raise) and return the success
CloseContextAndReturn ==
    /\ pc = "close_ctx"
    /\ \/ /\ Return(SuccessResult)
          /\ UNCHANGED exc
       \/ \E msg \in Msgs :
          /\ Raise(msg)
          /\ UNCHANGED result
    /\ UNCHANGED << requestVars, outerVars, detailVars, retry_count, browser, playwright, context,
                    businesses, last_error, total_cards_loaded, variation,
                    propagating, sessions, p2Vars, histVars >>

\* a handler that logs and re-raises, as the one of _create_fresh_browser does
HandlerReraises ==
    /\ pc = "except"
    /\ last_error' = Some(exc)
    /\ propagating' = TRUE
    /\ pc' = "finally"
    /\ UNCHANGED << requestVars, outerVars, detailVars, retry_count, browser, playwright, context,
                    businesses, total_cards_loaded, variation, exc, result,
                    sessions, p2Vars, histVars >>

\* a handler that gives up at the first fault, whatever retries remain
HandlerGivesUp ==
    /\ pc = "except"
    /\ last_error' = Some(exc)
    /\ pc' = "all_failed"
    /\ UNCHANGED << requestVars, outerVars, detailVars, retry_count, browser,
                    playwright, context, businesses, total_cards_loaded,
                    variation, exc, propagating, result, sessions, p2Vars,
                    histVars >>

\* a handler that counts the failed attempt also when it was the last
HandlerCountsLast ==
    /\ pc = "except"
    /\ last_error' = Some(exc)
    /\ retry_count' = retry_count + 1
    /\ pc' = IF retry_count >= max_retries THEN "all_failed" ELSE "loop"
    /\ UNCHANGED << requestVars, outerVars, detailVars, browser, playwright,
                    context, businesses, total_cards_loaded, variation, exc,
                    propagating, result, sessions, p2Vars, histVars >>

\* a handler that counts the retry before it looks at the limit
HandlerAlwaysRetries ==
    /\ pc = "except"
    /\ last_error' = Some(exc)
    /\ pc' = "loop"
    /\ retry_count' = retry_count + 1
    /\ UNCHANGED << requestVars, outerVars, detailVars, browser, playwright,
                    context, businesses, total_cards_loaded, variation, exc,
                    propagating, result, sessions, p2Vars, histVars >>

\* lines 240-253: the handler of the attempt.  Its own context.close() is
\* wrapped in try/except (context may even be unbound) and changes nothing.
Handler ==
    /\ pc = "except"
    /\ last_error' = Some(exc)
    /\ IF retry_count >= max_retries
       THEN pc' = "all_failed" /\ UNCHANGED retry_count
       ELSE pc' = "loop" /\ retry_count' = retry_count + 1
    /\ UNCHANGED << requestVars, outerVars, detailVars, browser, playwright, context, businesses,
                    total_cards_loaded, variation, exc, propagating, result,
                    sessions, p2Vars, histVars >>

\* the dictionary of lines 256-264; `last_error or "..."`
FailedResult ==
    [success |-> FALSE,
     error |-> IF Truthy(last_error) THEN last_error[1]
               ELSE "All retry attempts failed",
     businesses |-> businesses,
     cards_loaded |-> Len(businesses),
     search_term |-> search_term,
     area_name |-> area_name,
     retry_count |-> retry_count]

\* lines 255-264
AllRetriesFailed ==
    /\ pc = "all_failed"
    /\ Return(FailedResult)
    /\ UNCHANGED << requestVars, outerVars, detailVars, retry_count, browser, playwright, context,
                    businesses, last_error, total_cards_loaded, variation, exc,
                    propagating, sessions, p2Vars, histVars >>

\* lines 266-274: the finally block, then the return (or the exception)
\* reaches the caller
Finally ==
    /\ pc = "finally"
    /\ IF browser # 0
       THEN \E close_ok \in BOOLEAN :
                sessions' = CloseSession(sessions, browser, playwright, close_ok)
       ELSE UNCHANGED sessions
    /\ pc' = IF propagating THEN "raised" ELSE "done"
    /\ UNCHANGED << requestVars, outerVars, detailVars, retry_count, browser, playwright, context,
                    businesses, last_error, total_cards_loaded, variation, exc,
                    propagating, result, p2Vars, histVars >>

(***************************************************************************)
(* Phase 2 unfolded: one iteration of the loop of line 303 as the steps    *)
(* click (lines 307-319), wait (322-329), extract (332), accept (334-357). *)
(***************************************************************************)
\* what one close action does to the page: it closes the open detail view,
\* has no effect, or the call raises
CloseEffects == {"closed", "none", "raise"}

AfterClose(open, effect) == IF effect = "closed" THEN -1 ELSE open

\* _return_to_list_safe: every value of open_item the call can leave, over all
\* effects of Escape (line 484), the back button (lines 495-498) and the click
\* on the body (line 508), and all outcomes of the two checks that the list
\* selector is present (lines 488-492, 501-505).  A raise ends the call
\* (handler of line 511).
return_to_list_safe(open) ==
    { LET o1 == AfterClose(open, esc)
          o2 == IF back = "present" THEN AfterClose(o1, bk) ELSE o1
          o3 == AfterClose(o2, body)
      IN  IF esc = "raise" THEN open
          ELSE IF list1 THEN o1
          ELSE IF back = "raise" THEN o1
          ELSE IF back = "present" /\ bk = "raise" THEN o1
          ELSE IF back = "present" /\ list2 THEN o2
          ELSE o3 :
      esc \in CloseEffects, list1 \in BOOLEAN,
      back \in {"absent", "present", "raise"}, bk \in CloseEffects,
      list2 \in BOOLEAN, body \in CloseEffects }

\* the operator above tabulated (evaluated once)
ReturnToList == [o \in -1..MaxCards |-> return_to_list_safe(o)]

\* a handle taken from the list queried before the loop (lines 282, 289)
initial_card(k, nav) == [fetched_in |-> -1, index |-> k, nav |-> 0]

\* lines 307, 312: current_cards[k] of the list queried in iteration k, when
\* `nav` clicks and returns to the list had been made
current_card(k, nav) == [fetched_in |-> k, index |-> k, nav |-> nav]

\* `continue`, or the end of the loop body: the next index
NextIteration ==
    /\ i' = i + 1
    /\ card' = None
    /\ p2_business' = None
    /\ pc' = "p2_card"

\* an iteration without the handler of line 359: the fault leaves the loop and
\* reaches the handler of line 369, which returns []
IterationFaultAborts(open) ==
    /\ AssignBusinesses(<<>>)
    /\ open_item' = open
    /\ UNCHANGED << i, card, p2_business, nav_actions >>

\* lines 359-362: a fault inside the iteration is caught; the page, left with
\* `open`, is returned to the list and the loop continues
IterationFault(open) ==
    /\ \E o \in ReturnToList[open] : open_item' = o
    /\ nav_actions' = nav_actions + 1
    /\ NextIteration
    /\ UNCHANGED << businesses, biz_attempt >>

\* lines 303-319: the list is queried again; item i is gone, or its handle is
\* scrolled into view and clicked.  The click opens the detail view of item
\* i or leaves the page as it was.
P2Click ==
    /\ pc = "p2_card"
    /\ i < cards_to_process
    /\ visited' = Append(visited, i)
    /\ \/ \* query_selector_all or scroll_into_view_if_needed raises
          /\ IterationFault(open_item)
          /\ UNCHANGED open_at_click
       \/ \E n \in 0..MaxCards :
          IF i >= n
          THEN /\ NextIteration
               /\ UNCHANGED << open_item, nav_actions, open_at_click,
                               businesses, biz_attempt >>
          ELSE \E o \in {open_item, i} :
               /\ open_at_click' = open_item
               /\ \/ IterationFault(o)          \* card.click() raises
                  \/ /\ open_item' = o
                     /\ card' = Some(current_card(i, nav_actions))
                     /\ nav_actions' = nav_actions + 1
                     /\ pc' = "p2_wait"
                     /\ UNCHANGED << i, p2_business, businesses, biz_attempt >>
    /\ UNCHANGED << requestVars, outerVars, retry_count, browser, playwright,
                    context, last_error, total_cards_loaded, variation, exc,
                    propagating, result, sessions, cards_to_process, cards,
                    processed_names, p2_businesses, attempts, blocked_attempts,
                    zero_attempts, p2_faulted, dup_skipped, succeeded, sources >>

\* lines 322-329: the wait for the detail root .TIHn2.  It returns when a
\* detail view is open; a timeout or any fault is caught by the bare except,
\* the page is returned to the list and the loop continues.
P2Wait ==
    /\ pc = "p2_wait"
    /\ \/ /\ open_item # -1
          /\ pc' = "p2_read"
          /\ UNCHANGED << i, card, p2_business, open_item, nav_actions >>
       \/ /\ \E o \in ReturnToList[open_item] : open_item' = o
          /\ nav_actions' = nav_actions + 1
          /\ NextIteration
    /\ UNCHANGED << requestVars, outerVars, driverVars, cards_to_process, cards,
                    processed_names, p2_businesses, histVars, visited,
                    succeeded, open_at_click, sources >>

\* line 332: the detail pane is read
P2Extract ==
    /\ pc = "p2_read"
    /\ \E pane \in Panes : p2_business' = Some(Extracted[search_term][pane])
    /\ pc' = "p2_accept"
    /\ UNCHANGED << requestVars, outerVars, driverVars, p2Vars, histVars,
                    open_item, card, nav_actions, visited, succeeded,
                    open_at_click, sources >>

\* lines 334-357: the test of the extracted dict and the de-dup, then the
\* return to the list
P2Accept ==
    /\ pc = "p2_accept"
    /\ IF extraction_ok(p2_business[1])
       THEN /\ AcceptBusiness(p2_business[1])
            /\ succeeded' = Append(succeeded, p2_business[1])
            /\ sources' = IF NameKey[p2_business[1].name] \in processed_names
                          THEN sources
                          ELSE Append(sources, [item |-> i, name |-> p2_business[1].name])
       ELSE UNCHANGED << processed_names, p2_businesses, dup_skipped, succeeded,
                         sources >>
    /\ \E o \in ReturnToList[open_item] : open_item' = o
    /\ nav_actions' = nav_actions + 1
    /\ NextIteration
    /\ UNCHANGED << requestVars, outerVars, driverVars, cards_to_process, cards,
                    attempts, blocked_attempts, zero_attempts, p2_faulted,
                    biz_attempt, visited, open_at_click >>

\* the frame of a run whose first attempt has reached `where`: one browser
\* session and its context exist, nothing was extracted or returned yet
FirstAttempt(where) ==
    /\ search_term \in SearchTerms \ {""}
    /\ area_name \in AreaNames \ {""}
    /\ max_retries \in 0..MaxRetries
    /\ pc = where
    /\ retry_count = 0
    /\ browser = 1
    /\ playwright = 1
    /\ context = 1
    /\ businesses = <<>>
    /\ last_error = None
    /\ variation = 0
    /\ exc = ""
    /\ propagating = FALSE
    /\ result = NoResult
    /\ sessions = << [attempt |-> 1, closes |-> 0, stops |-> 0] >>
    /\ cards_to_process = 0
    /\ cards = 0
    /\ i = 0
    /\ processed_names = {}
    /\ p2_businesses = <<>>
    /\ attempts = 1
    /\ blocked_attempts = 0
    /\ zero_attempts = 0
    /\ p2_faulted = FALSE
    /\ biz_attempt = -1
    /\ dup_skipped = FALSE

\* the state in which line 220 calls phase 2 in the first attempt of a run
InitPhase2 ==
    /\ DetailIdle
    /\ OuterIdle
    /\ FirstAttempt("p2_start")
    /\ max_results \in 1..MaxResults
    /\ total_cards_loaded \in LoadedCounts \ {0}

NextPhase2 ==
    \/ P2Start
    \/ P2Click
    \/ P2Wait
    \/ P2Extract
    \/ P2Accept
    \/ P2Return

SpecPhase2 == InitPhase2 /\ [][NextPhase2]_vars

(***************************************************************************)
(* The scroll loop of auto_scroll_load_all_cards: the JavaScript function  *)
(* of scroll_manager.py lines 138-172, evaluated in the page once the      *)
(* container was found.  The page decides the count read in each round.    *)
(***************************************************************************)
\* the literals of line 147
StableLimit == 3
RoundLimit == 50

\* the targets (max_results) the loop is run with
ScrollTargets == {1, MaxResults, MaxDomCards + 1}

\* a loop that stops for stability only
LoopConditionNoCap == stableRounds < StableLimit

\* line 147: while (stableRounds < 3 && totalRounds < 50)
LoopCondition == stableRounds < StableLimit /\ totalRounds < RoundLimit

\* lines 139-145, in a run whose first attempt is at line 165
InitScroll ==
    /\ DetailIdle
    /\ caller = "waiting"
    /\ ParserIdle
    /\ SettleIdle
    /\ ServerIdle
    /\ LoaderIdle
    /\ ExtractorIdle
    /\ FirstAttempt("phase1")
    /\ max_results \in ScrollTargets
    /\ total_cards_loaded = 0
    /\ js_pc = "loop"
    /\ target = max_results
    /\ totalRounds = 0
    /\ prevCount = 0
    /\ stableRounds = 0
    /\ count = 0
    /\ scrolls = 0
    /\ total_cards = 0

\* lines 148-167: one round
ScrollRound ==
    /\ js_pc = "loop"
    /\ LoopCondition
    /\ totalRounds' = totalRounds + 1
    /\ \E c \in 0..MaxDomCards :
       /\ count' = c
       /\ IF c >= target
          THEN /\ js_pc' = "counting"
               /\ UNCHANGED << prevCount, stableRounds, scrolls >>
          ELSE /\ IF c > prevCount
                  THEN prevCount' = c /\ stableRounds' = 0
                  ELSE stableRounds' = stableRounds + 1 /\ UNCHANGED prevCount
               /\ scrolls' = scrolls + 1
               /\ UNCHANGED js_pc
    /\ UNCHANGED << besidesScroll, target, total_cards >>

\* line 147: the loop condition fails
ScrollExit ==
    /\ js_pc = "loop"
    /\ ~LoopCondition
    /\ js_pc' = "counting"
    /\ UNCHANGED << besidesScroll, target, totalRounds, prevCount,
                    stableRounds, count, scrolls, total_cards >>

\* line 171: the function returns the number of cards in the page
ScrollReturn ==
    /\ js_pc = "counting"
    /\ total_cards' \in 0..MaxDomCards
    /\ js_pc' = "returned"
    /\ UNCHANGED << besidesScroll, target, totalRounds, prevCount,
                    stableRounds, count, scrolls >>

NextScroll ==
    \/ ScrollRound
    \/ ScrollExit
    \/ ScrollReturn

SpecScroll == InitScroll /\ [][NextScroll]_vars

(***************************************************************************)
(* Two runs on one scraper object: each executes line 162 of               *)
(* scrape_single_search and then auto_scroll_load_all_cards on its own     *)
(* page.  A step is the code between two awaits of one run.                *)
(***************************************************************************)
\* what a page can show: the number of result cards, and for each call of
\* find_scrollable_container whether it finds a container (either strategy).
\* Without cards it finds none (scroll_manager.py lines 24-36); with cards it
\* may still find none (the list is not scrollable), and a fault inside it
\* is caught and reported as none (lines 97-99).
Pages ==
    { pg \in [cards : 0..MaxCards, discover : [1..DiscoveryLimit -> BOOLEAN]] :
        pg.cards = 0 => \A k \in 1..DiscoveryLimit : ~pg.discover[k] }

\* the value a loader call returns on page pg when it runs alone and no
\* engine call raises
LoadsAlone(pg) ==
    IF \E k \in 1..DiscoveryLimit : pg.discover[k] THEN pg.cards ELSE 0

InitLoader ==
    /\ DetailIdle
    /\ caller = "waiting"
    /\ ParserIdle
    /\ SettleIdle
    /\ ServerIdle
    /\ ScrollIdle
    /\ ExtractorIdle
    /\ FirstAttempt("phase1")
    /\ search_term = "cafe"
    /\ max_retries = 0
    /\ max_results = MaxResults
    /\ total_cards_loaded = 0
    /\ scroll_container = None
    /\ flag_writer = "none"
    /\ page \in [Runs -> Pages]
    /\ loader = [r \in Runs |-> LoaderFrame]

\* scrape_single_search line 162, then scroll_manager.py lines 104-110: the
\* flag is reset, read as unset, and find_scrollable_container is awaited
LoaderCall(r) ==
    /\ loader[r].pc = "call"
    /\ scroll_container' = None
    /\ flag_writer' = r
    /\ loader' = [loader EXCEPT ![r].pc = "finding"]
    /\ UNCHANGED << besidesLoader, page >>

\* find_scrollable_container returns.  Found (lines 72, 89): the flag is set,
\* the loop is left (line 125) and line 129 reads the flag just set.  Not
\* found (lines 111-123): the wait of line 114, or 0 after the last attempt.
FindReturns(r) ==
    /\ loader[r].pc = "finding"
    /\ LET k == loader[r].finds + 1
       IN  IF page[r].discover[k]
           THEN /\ scroll_container' = Some(TRUE)
                /\ flag_writer' = r
                /\ loader' = [loader EXCEPT ![r].finds = k,
                                            ![r].container = TRUE,
                                            ![r].pc = "scrolling"]
           ELSE /\ loader' = [loader EXCEPT
                                ![r].finds = k,
                                ![r].retry_count = @ + 1,
                                ![r].pc = IF loader[r].retry_count + 1 < DiscoveryLimit
                                          THEN "waiting" ELSE "returned",
                                ![r].loaded = IF loader[r].retry_count + 1 < DiscoveryLimit
                                              THEN @ ELSE 0]
                /\ UNCHANGED << scroll_container, flag_writer >>
    /\ UNCHANGED << besidesLoader, page >>

\* lines 114-120, then line 108 again: the wait (which may raise: it is
\* outside every try), the scroll to the top, and the flag is read.  Unset:
\* find_scrollable_container is awaited again.  Set: the loop is left (line
\* 127) and line 129 passes.
LoaderRetry(r) ==
    /\ loader[r].pc = "waiting"
    /\ \/ loader' = [loader EXCEPT ![r].pc = "raised", ![r].faulted = TRUE]
       \/ loader' = [loader EXCEPT
                       ![r].waits = @ + 1,
                       ![r].foreign = @ \/ flag_writer # r,
                       ![r].pc = IF scroll_container = None
                                 THEN "finding" ELSE "scrolling"]
    /\ UNCHANGED << besidesLoader, scroll_container, flag_writer, page >>

\* lines 135-185: the scroll loop is evaluated in the run's own page.  It
\* returns the page's card count, or 0 when that page has no
\* window._mapsListContainer (line 140).  When the evaluate call raises, the
\* cards are counted by a query (line 182), which gives 0 if it raises too.
LoaderScroll(r) ==
    /\ loader[r].pc = "scrolling"
    /\ \/ loader' = [loader EXCEPT
                       ![r].pc = "returned",
                       ![r].loaded = IF loader[r].container
                                     THEN page[r].cards ELSE 0]
       \/ \E n \in {page[r].cards, 0} :
             loader' = [loader EXCEPT ![r].pc = "returned",
                                      ![r].faulted = TRUE,
                                      ![r].loaded = n]
    /\ UNCHANGED << besidesLoader, scroll_container, flag_writer, page >>

NextLoader ==
    \/ \E r \in Runs : LoaderCall(r)
    \/ \E r \in Runs : FindReturns(r)
    \/ \E r \in Runs : LoaderRetry(r)
    \/ \E r \in Runs : LoaderScroll(r)

SpecLoader == InitLoader /\ [][NextLoader]_vars

(***************************************************************************)
(* extractors/data_extractor.py: _extract_detail_data_with_retry (lines    *)
(* 114-128) around _extract_detail_data (lines 130-169) for one card.      *)
(***************************************************************************)
\* max_retries, the default of line 114
DetailRetries == 2

\* the text keys _extract_detail_data sets, in the order of lines 149-152,
\* and the texts a read can give: every _extract_detail_* helper catches its
\* faults and returns "" then
DetailFields == << "address", "phone", "website", "category" >>
FieldTexts == {"", "shown"}

\* a render wait whose failure is an exception: the retry loop of line 116
\* handles it as any other fault of the attempt
DetailTimeoutRaises ==
    /\ x_timeouts' = x_timeouts + 1
    /\ IF attempt < DetailRetries
       THEN /\ x_force_closes' = x_force_closes + 1
            /\ attempt' = attempt + 1
            /\ x_pc' = "attempt"
            /\ UNCHANGED x_result
       ELSE /\ x_result' = [error |-> "All attempts failed"]
            /\ x_pc' = "returned"
            /\ UNCHANGED << x_force_closes, attempt >>

\* lines 144-146: the detail pane did not load: the pane is force-closed
\* (Escape, then a click on the body, faults swallowed: lines 342-354) and
\* the error dict is returned; line 118 returns it to the caller as it is
DetailTimeout ==
    /\ x_timeouts' = x_timeouts + 1
    /\ x_force_closes' = x_force_closes + 1
    /\ x_result' = [error |-> "Detail pane load timeout"]
    /\ x_pc' = "returned"
    /\ UNCHANGED attempt

InitExtractor ==
    /\ DetailIdle
    /\ caller = "waiting"
    /\ ParserIdle
    /\ SettleIdle
    /\ ServerIdle
    /\ ScrollIdle
    /\ LoaderIdle
    /\ FirstAttempt("p2_start")
    /\ max_results \in 1..MaxResults
    /\ total_cards_loaded \in LoadedCounts \ {0}
    /\ x_pc = "attempt"
    /\ attempt = 0
    /\ detail_data = <<>>
    /\ x_result = [pending |-> TRUE]
    /\ x_clicks = 0
    /\ x_force_closes = 0
    /\ x_timeouts = 0

\* lines 118, 132-139: one attempt begins: the detail link is looked up and
\* clicked.  No link: the error dict is returned.  A raise of the lookup or
\* of the click is handled at lines 119-126: force-close and the next
\* attempt, or the error dict after the last one.
OpenDetail ==
    /\ x_pc = "attempt"
    /\ \/ /\ x_result' = [error |-> "No detail link found"]
          /\ x_pc' = "returned"
          /\ UNCHANGED << attempt, x_clicks, x_force_closes >>
       \/ /\ x_clicks' = x_clicks + 1
          /\ x_pc' = "wait"
          /\ UNCHANGED << attempt, x_result, x_force_closes >>
       \/ \E clicked \in {0, 1} :
          /\ x_clicks' = x_clicks + clicked
          /\ IF attempt < DetailRetries
             THEN /\ x_force_closes' = x_force_closes + 1
                  /\ attempt' = attempt + 1
                  /\ UNCHANGED << x_pc, x_result >>
             ELSE /\ x_result' = [error |-> "All attempts failed"]
                  /\ x_pc' = "returned"
                  /\ UNCHANGED << attempt, x_force_closes >>
    /\ UNCHANGED << besidesExtractor, detail_data, x_timeouts >>

\* lines 142-146 and _wait_for_detail_pane (171-186): either selector
\* appears, or both waits fail and False is returned
WaitForDetailPane ==
    /\ x_pc = "wait"
    /\ \/ /\ x_pc' = "fields"
          /\ UNCHANGED << attempt, x_result, x_force_closes, x_timeouts >>
       \/ DetailTimeout
    /\ UNCHANGED << besidesExtractor, detail_data, x_clicks >>

\* lines 149-152: the next text field is read and stored
ReadField ==
    /\ x_pc = "fields"
    /\ Cardinality(DOMAIN detail_data) < Len(DetailFields)
    /\ \E t \in FieldTexts :
          detail_data' = detail_data @@
              (DetailFields[Cardinality(DOMAIN detail_data) + 1] :> t)
    /\ UNCHANGED << besidesExtractor, x_pc, attempt, x_result, x_clicks,
                    x_force_closes, x_timeouts >>

\* lines 155-157: the coordinates, both None or both set
ReadCoordinates ==
    /\ x_pc = "fields"
    /\ Cardinality(DOMAIN detail_data) = Len(DetailFields)
    /\ \E c \in {None, Some(31)} :
          detail_data' = detail_data @@ [latitude |-> c, longitude |-> c]
    /\ UNCHANGED << besidesExtractor, x_pc, attempt, x_result, x_clicks,
                    x_force_closes, x_timeouts >>

\* lines 160-169: the rating is stored when one was parsed, the pane is
\* closed (_close_detail_pane swallows its faults) and the dict is returned
ReadRatingAndClose ==
    /\ x_pc = "fields"
    /\ "latitude" \in DOMAIN detail_data
    /\ \E r \in {None, Some([m |-> 45, s |-> 1])} :
          detail_data' = IF r = None THEN detail_data
                         ELSE detail_data @@ ("rating" :> r[1])
    /\ x_result' = detail_data'
    /\ x_pc' = "returned"
    /\ UNCHANGED << besidesExtractor, attempt, x_clicks, x_force_closes,
                    x_timeouts >>

NextExtractor ==
    \/ OpenDetail
    \/ WaitForDetailPane
    \/ ReadField
    \/ ReadCoordinates
    \/ ReadRatingAndClose

SpecExtractor == InitExtractor /\ [][NextExtractor]_vars

Next ==
    \/ Validate
    \/ LoopHead
    \/ ClosePrevious
    \/ CreateFreshBrowser
    \/ CreateContext
    \/ Navigate
    \/ CheckBlocked
    \/ Phase1
    \/ TryVariation
    \/ AfterVariations
    \/ P2Start
    \/ P2Card
    \/ P2Return
    \/ CloseContextAndReturn
    \/ Handler
    \/ AllRetriesFailed
    \/ Finally

Spec == Init /\ [][Next]_vars

(***************************************************************************)
(* The run with the navigation of lines 133-141 unfolded into page.goto    *)
(* and the settle wait, whose delay is recorded per attempt.               *)
(***************************************************************************)
\* a base wait that does not grow with the retries
base_wait_flat(retries) == 4000

\* line 139: base_wait = 4000 + (retry_count * 1000)
base_wait(retries) == 4000 + (retries * 1000)

\* lines 140-141: int(random.uniform(base_wait * 0.8, base_wait * 1.2)): the
\* two ends of the interval and its middle, in whole milliseconds
RandomWaits(base) == {(base * 8) \div 10, base, (base * 12) \div 10}

InitSettle ==
    /\ Init
    /\ search_term = "cafe"
    /\ area_name = "Lahore"
    /\ max_results = 1

\* line 136: page.goto with its timeout of 30000 ms
Goto ==
    /\ pc = "goto"
    /\ \/ /\ pc' = "settle"
          /\ UNCHANGED exc
       \/ \E msg \in Msgs : Raise(msg)
    /\ UNCHANGED << requestVars, outerVars, detailVars, retry_count, browser,
                    playwright, context, businesses, last_error,
                    total_cards_loaded, variation, propagating, result,
                    sessions, p2Vars, histVars >>

\* lines 139-141: the wait is drawn and waited; wait_for_timeout raises when
\* the page is gone
SettleWait ==
    /\ pc = "settle"
    /\ \E w \in RandomWaits(base_wait(retry_count)) :
       /\ random_wait' = w
       /\ \/ /\ settle_waits' = Append(settle_waits,
                                        [attempt |-> retry_count, wait |-> w])
             /\ pc' = "check_blocked"
             /\ UNCHANGED exc
          \/ \E msg \in Msgs :
             /\ Raise(msg)
             /\ UNCHANGED settle_waits
    /\ UNCHANGED << requestVars, besidesSettle, retry_count, browser,
                    playwright, context, businesses, last_error,
                    total_cards_loaded, variation, propagating, result,
                    sessions, p2Vars, histVars >>

NextSettle ==
    \/ Validate
    \/ LoopHead
    \/ ClosePrevious
    \/ CreateFreshBrowser
    \/ CreateContext
    \/ Goto
    \/ SettleWait
    \/ CheckBlocked
    \/ Phase1
    \/ TryVariation
    \/ AfterVariations
    \/ P2Start
    \/ P2Card
    \/ P2Return
    \/ CloseContextAndReturn
    \/ Handler
    \/ AllRetriesFailed
    \/ Finally

SpecSettle == InitSettle /\ [][NextSettle]_vars

(***************************************************************************)
(* The run awaited by run_async (async_manager.py lines 51-58), as         *)
(* _handle_scrape_single calls it (server.py lines 121-125): the coroutine *)
(* runs on the loop's thread, the caller blocks in future.result(timeout). *)
(***************************************************************************)
\* line 58: future.result raises TimeoutError after `timeout` seconds while
\* the coroutine has not finished.  Nothing cancels the future or the
\* coroutine: the run's frame is left as it is.
Expire ==
    /\ caller = "waiting"
    /\ pc \notin {"done", "raised"}
    /\ caller' = "timeout"
    /\ UNCHANGED besidesCaller

\* line 58: the coroutine has returned and future.result hands its value
\* to the caller
Deliver ==
    /\ caller = "waiting"
    /\ pc = "done"
    /\ caller' = "result"
    /\ UNCHANGED besidesCaller

NextServer ==
    \/ Validate
    \/ LoopHead
    \/ ClosePrevious
    \/ CreateFreshBrowser
    \/ CreateContext
    \/ Navigate
    \/ CheckBlocked
    \/ Phase1
    \/ TryVariation
    \/ AfterVariations
    \/ P2Start
    \/ P2Card
    \/ P2Return
    \/ CloseContextAndReturn
    \/ Handler
    \/ AllRetriesFailed
    \/ Finally
    \/ Expire
    \/ Deliver

SpecServer == Init /\ [][NextServer]_vars

(***************************************************************************)
(* One attempt on a described page: the attempt of a request that allows   *)
(* no retry, from line 162 on, with the loader call of line 165 unfolded   *)
(* into its discovery attempts on the page of run "A", and phase 2         *)
(* unfolded into its steps.                                                *)
(***************************************************************************)
\* a page that is never loaded
NoPage == [cards |-> 0, discover |-> [k \in 1..DiscoveryLimit |-> FALSE]]

InitPage ==
    /\ DetailIdle
    /\ caller = "waiting"
    /\ ParserIdle
    /\ SettleIdle
    /\ ServerIdle
    /\ ScrollIdle
    /\ ExtractorIdle
    /\ FirstAttempt("phase1")
    /\ max_retries = 0
    /\ max_results \in 1..MaxResults
    /\ total_cards_loaded = 0
    /\ scroll_container = None
    /\ flag_writer = "none"
    /\ page \in {pp \in [Runs -> Pages] : pp["B"] = NoPage}
    /\ loader = [r \in Runs |-> LoaderFrame]

\* lines 165-168: auto_scroll_load_all_cards has returned its count, or the
\* wait of scroll_manager.py line 114 raised and the fault reaches the
\* handler of the attempt
Phase1Returns ==
    /\ pc = "phase1"
    /\ \/ /\ loader["A"].pc = "returned"
          /\ total_cards_loaded' = loader["A"].loaded
          /\ IF loader["A"].loaded = 0
             THEN pc' = "variations" /\ variation' = 1
             ELSE pc' = "p2_start" /\ UNCHANGED variation
          /\ UNCHANGED exc
       \/ /\ loader["A"].pc = "raised"
          /\ \E msg \in Msgs : Raise(msg)
          /\ UNCHANGED << total_cards_loaded, variation >>
    /\ UNCHANGED << requestVars, outerVars, detailVars, retry_count, browser, playwright, context,
                    businesses, last_error, propagating, result, sessions, p2Vars, histVars >>

NextPage ==
    \/ LoaderCall("A")
    \/ FindReturns("A")
    \/ LoaderRetry("A")
    \/ LoaderScroll("A")
    \/ Phase1Returns
    \/ TryVariation
    \/ AfterVariations
    \/ P2Start
    \/ P2Click
    \/ P2Wait
    \/ P2Extract
    \/ P2Accept
    \/ P2Return
    \/ CloseContextAndReturn
    \/ Handler
    \/ AllRetriesFailed
    \/ Finally

SpecPage == InitPage /\ [][NextPage]_vars

(***************************************************************************)
(* The whole run under fairness: every attempt navigates to a page of its  *)
(* own and calls the loader on it, unfolded into its discovery attempts.   *)
(* The run is one coroutine awaited to its end, and every engine call it   *)
(* awaits completes or times out (goto 30000 ms, wait_for_selector 8000    *)
(* and 3000 ms, wait_for_timeout, sleeps): a step that can be taken is     *)
(* taken, which is weak fairness of the next-step relation.                *)
(***************************************************************************)
\* requests that allow retries ask for one result, requests for more
\* results allow no retry
InitLive ==
    /\ Init
    /\ search_term \in {"", "cafe"}
    /\ area_name = "Lahore"
    /\ max_retries = 0 \/ max_results = 1

\* lines 133-141: page.goto loads the page of this attempt; no loader call
\* was made on it yet
GotoPage ==
    /\ pc = "goto"
    /\ \/ \E pg \in Pages :
          /\ page' = [page EXCEPT !["A"] = pg]
          /\ loader' = [loader EXCEPT !["A"] = LoaderFrame]
          /\ pc' = "check_blocked"
          /\ UNCHANGED exc
       \/ \E msg \in Msgs :
          /\ Raise(msg)
          /\ UNCHANGED << page, loader >>
    /\ UNCHANGED << requestVars, caller, scrollVars, extractorVars, parserVars,
                    settleVars, serverVars, detailVars, scroll_container, flag_writer,
                    retry_count, browser, playwright, context, businesses,
                    last_error, total_cards_loaded, variation, propagating,
                    result, sessions, p2Vars, histVars >>

\* line 165: the loader is called once the attempt has reached phase 1
Phase1Call ==
    /\ pc = "phase1"
    /\ pc' = "loading"
    /\ scroll_container' = None
    /\ flag_writer' = "A"
    /\ loader' = [loader EXCEPT !["A"].pc = "finding"]
    /\ UNCHANGED << requestVars, caller, scrollVars, extractorVars, parserVars,
                    settleVars, serverVars, detailVars, page, driverVars, p2Vars,
                    histVars >>

\* lines 165-168: auto_scroll_load_all_cards has returned its count, or the
\* wait of scroll_manager.py line 114 raised.  The loader's frame is gone
\* then, and the page as it was loaded is not read again before the next
\* navigation; the model forgets both here.
Phase1Leaves ==
    /\ pc = "loading"
    /\ \/ /\ loader["A"].pc = "returned"
          /\ total_cards_loaded' = loader["A"].loaded
          /\ IF loader["A"].loaded = 0
             THEN pc' = "variations" /\ variation' = 1
             ELSE pc' = "p2_start" /\ UNCHANGED variation
          /\ UNCHANGED exc
       \/ /\ loader["A"].pc = "raised"
          /\ \E msg \in Msgs : Raise(msg)
          /\ UNCHANGED << total_cards_loaded, variation >>
    /\ loader' = [loader EXCEPT !["A"] = LoaderFrame]
    /\ page' = [page EXCEPT !["A"] = NoPage]
    /\ UNCHANGED << requestVars, caller, scrollVars, extractorVars, parserVars,
                    settleVars, serverVars, detailVars, scroll_container, flag_writer,
                    retry_count, browser, playwright, context, businesses,
                    last_error, propagating, result, sessions, p2Vars,
                    histVars >>

NextLive ==
    \/ Validate
    \/ LoopHead
    \/ ClosePrevious
    \/ CreateFreshBrowser
    \/ CreateContext
    \/ GotoPage
    \/ CheckBlocked
    \/ Phase1Call
    \/ FindReturns("A")
    \/ LoaderRetry("A")
    \/ LoaderScroll("A")
    \/ Phase1Leaves
    \/ TryVariation
    \/ AfterVariations
    \/ P2Start
    \/ P2Card
    \/ P2Return
    \/ CloseContextAndReturn
    \/ Handler
    \/ AllRetriesFailed
    \/ Finally

SpecLive == InitLive /\ [][NextLive]_vars /\ WF_vars(NextLive)

(***************************************************************************)
(* server.py, _handle_scrape_single (lines 91-184): the handler threads of *)
(* the Flask server (app.run(threaded=True), line 459) share               *)
(* self.result_cache.  A step of a thread is the code between two points   *)
(* at which another thread can run; the scrape itself is one step whose    *)
(* result is drawn.  Dicts are objects: the cache and a thread may hold    *)
(* the same one.                                                           *)
(***************************************************************************)
\* most advances of the clock in one behaviour
MaxTicks == 3

\* line 39: self.CACHE_DURATION = 15 * 60
CACHE_DURATION == 15 * 60

\* the clock advances by half the cache duration
ClockStep == CACHE_DURATION \div 2

\* the request bodies: two of the pairs give the same cache key
CacheTerms == {"", "cafe", "cafe_dha"}
CacheAreas == {"lahore", "dha_lahore"}
Requests ==
    [search_term : CacheTerms, area_name : CacheAreas, bypass_cache : BOOLEAN]

\* lines 111 and 141: f"{search_term}_{area_name}"
cache_key(term, area) == term \o "_" \o area

\* an entry that is still served at the very end of its duration
cache_fresh_inclusive(age) == age <= CACHE_DURATION

\* line 114: time.time() - cache_entry['timestamp'] < self.CACHE_DURATION
cache_fresh(age) == age < CACHE_DURATION

InitCache ==
    /\ Init
    /\ search_term = ""
    /\ area_name = "Lahore"
    /\ max_results = 1
    /\ max_retries = 0

\* lines 93-104: the body is read; without a body the answer is 400
Receive(t) ==
    /\ handler[t].pc = "idle"
    /\ \/ \E d \in Requests :
             handler' = [handler EXCEPT ![t].pc = "lookup", ![t].data = Some(d)]
       \/ handler' = [handler EXCEPT
                        ![t].pc = "done",
                        ![t].path = "rejected",
                        ![t].response = Some([status |-> 400,
                                              body |-> [success |-> FALSE,
                                                        error |-> "No data provided"]])]
    /\ UNCHANGED << besidesServer, jobVars, result_cache, dicts, clock >>

\* lines 110-116: the cache is looked up unless the request bypasses it; a
\* hit marks the cached dict itself
Lookup(t) ==
    /\ handler[t].pc = "lookup"
    /\ LET d == handler[t].data[1]
           k == cache_key(d.search_term, d.area_name)
       IN  IF /\ ~d.bypass_cache
              /\ k \in DOMAIN result_cache
              /\ cache_fresh(clock - result_cache[k].timestamp)
           THEN /\ dicts' = [dicts EXCEPT ![result_cache[k].data].from_cache = TRUE]
                /\ handler' = [handler EXCEPT
                                 ![t].pc = "serve",
                                 ![t].response_data = result_cache[k].data,
                                 ![t].path = "cache",
                                 ![t].age = clock - result_cache[k].timestamp]
           ELSE /\ handler' = [handler EXCEPT ![t].pc = "scrape"]
                /\ UNCHANGED dicts
    /\ UNCHANGED << besidesServer, jobVars, result_cache, clock >>

\* line 115: the cached dict is serialised
ServeCached(t) ==
    /\ handler[t].pc = "serve"
    /\ handler' = [handler EXCEPT
                     ![t].pc = "done",
                     ![t].response = Some([status |-> 200,
                                           body |-> dicts[handler[t].response_data]])]
    /\ UNCHANGED << besidesServer, jobVars, result_cache, dicts, clock >>

\* lines 119-137 and 157-175: run_async returns the result of the scrape, of
\* which a request without a search term only ever gets the rejection, or
\* it raises (its timeout, a fault), which is answered with 500.  The
\* response dict is built from the result with from_cache = False.
Scrape(t) ==
    /\ handler[t].pc = "scrape"
    /\ LET d == handler[t].data[1]
       IN  \/ \E ok \in (IF d.search_term = "" THEN {FALSE} ELSE BOOLEAN) :
                /\ dicts' = Append(dicts,
                       [success |-> ok,
                        search_term |-> IF d.search_term = "" THEN "" ELSE d.search_term,
                        area_name |-> IF d.search_term = "" THEN "" ELSE d.area_name,
                        from_cache |-> FALSE])
                /\ handler' = [handler EXCEPT
                                 ![t].pc = "store",
                                 ![t].response_data = Len(dicts) + 1,
                                 ![t].path = "fresh"]
           \/ /\ handler' = [handler EXCEPT
                                ![t].pc = "done",
                                ![t].path = "error",
                                ![t].response = Some([status |-> 500,
                                                      body |-> [success |-> FALSE,
                                                                error |-> "timeout"]])]
              /\ UNCHANGED dicts
    /\ UNCHANGED << besidesServer, jobVars, result_cache, clock >>

\* lines 140-146: a successful result of a request with both fields is put
\* into the cache, the dict itself with the time of the store
Store(t) ==
    /\ handler[t].pc = "store"
    /\ LET d == handler[t].data[1]
           k == cache_key(d.search_term, d.area_name)
       IN  IF /\ dicts[handler[t].response_data].success
              /\ d.search_term # ""
              /\ d.area_name # ""
           THEN result_cache' =
                    (k :> [timestamp |-> clock, data |-> handler[t].response_data])
                    @@ result_cache
           ELSE UNCHANGED result_cache
    /\ handler' = [handler EXCEPT ![t].pc = "respond"]
    /\ UNCHANGED << besidesServer, jobVars, dicts, clock >>

\* lines 149-155: the files are saved (faults are swallowed), then the
\* response dict is serialised
Respond(t) ==
    /\ handler[t].pc = "respond"
    /\ handler' = [handler EXCEPT
                     ![t].pc = "done",
                     ![t].response = Some([status |-> 200,
                                           body |-> dicts[handler[t].response_data]])]
    /\ UNCHANGED << besidesServer, jobVars, result_cache, dicts, clock >>

\* time passes
Tick ==
    /\ clock < MaxTicks * ClockStep
    /\ clock' = clock + ClockStep
    /\ UNCHANGED << besidesServer, jobVars, result_cache, dicts, handler >>

NextCache ==
    \/ \E t \in Threads : Receive(t)
    \/ \E t \in Threads : Lookup(t)
    \/ \E t \in Threads : ServeCached(t)
    \/ \E t \in Threads : Scrape(t)
    \/ \E t \in Threads : Store(t)
    \/ \E t \in Threads : Respond(t)
    \/ Tick

SpecCache == InitCache /\ [][NextCache]_vars

(***************************************************************************)
(* server.py, _handle_scrape_job_async (lines 204-247) and the background  *)
(* thread it starts, _process_job_async (lines 249-315).  The scrape is    *)
(* one step whose result is drawn; the database and the webhook are        *)
(* outside the program, their calls succeed or raise.                      *)
(***************************************************************************)
\* the request bodies: job_id and completion_webhook, present or not
JobRequests == [job_id : {"", "job-1"}, completion_webhook : {"", "http://n8n/hook"}]

\* what run_async hands back: a result of the scrape
JobResults == [success : BOOLEAN, businesses : BOOLEAN]

\* lines 317-340, _update_job_status: without a client nothing happens; the
\* update is executed, and a fault of it is logged and swallowed
update_job_status(now, status, ok) ==
    IF supabase = "client" /\ ok THEN status ELSE now

\* a webhook call whose fault reaches the caller
webhook_propagates(ok) == ok

\* lines 396-422, _send_completion_webhook: whether the caller sees the call
\* return; a fault of requests.post is logged and swallowed
webhook_returns(ok) == TRUE

InitJob ==
    /\ Init
    /\ search_term = ""
    /\ area_name = "Lahore"
    /\ max_results = 1
    /\ max_retries = 0

\* lines 25-27: the client is created when SUPABASE_URL and SUPABASE_KEY are
\* set, otherwise supabase is None
CreateClient ==
    /\ supabase = "unset"
    /\ supabase' \in {"client", "none"}
    /\ UNCHANGED << besidesServer, cacheVars, jobs >>

\* lines 206-240: without a body, a job_id or a completion_webhook the
\* answer is 400; otherwise the background thread is started and the answer
\* is 200
HandleScrapeJobAsync(j) ==
    /\ supabase # "unset"
    /\ jobs[j].pc = "idle"
    /\ \/ jobs' = [jobs EXCEPT ![j].pc = "rejected", ![j].response = 400]
       \/ \E d \in JobRequests :
             IF d.job_id = "" \/ d.completion_webhook = ""
             THEN jobs' = [jobs EXCEPT ![j].pc = "rejected",
                                       ![j].data = Some(d),
                                       ![j].response = 400]
             ELSE jobs' = [jobs EXCEPT ![j].pc = "update_status",
                                       ![j].data = Some(d),
                                       ![j].thread = TRUE,
                                       ![j].response = 200]
    /\ UNCHANGED << besidesServer, cacheVars, supabase >>

\* line 259: self._update_job_status(job_id, 'running')
UpdateJobStatus(j) ==
    /\ jobs[j].pc = "update_status"
    /\ \E ok \in BOOLEAN :
          jobs' = [jobs EXCEPT
                     ![j].pc = "run_async",
                     ![j].status = update_job_status(@, "running", ok)]
    /\ UNCHANGED << besidesServer, cacheVars, supabase >>

\* lines 261-274: run_async returns the result of the scrape, or raises (its
\* timeout of 300 s, a fault of the loop)
RunAsync(j) ==
    /\ jobs[j].pc = "run_async"
    /\ \/ \E r \in JobResults :
             jobs' = [jobs EXCEPT ![j].pc = "insert", ![j].result = Some(r)]
       \/ jobs' = [jobs EXCEPT ![j].pc = "except"]
    /\ UNCHANGED << besidesServer, cacheVars, supabase >>

\* lines 280-287 and 342-394: the businesses of a successful result are
\* inserted; without a client or after a fault the count is 0
InsertBusinesses(j) ==
    /\ jobs[j].pc = "insert"
    /\ LET r == jobs[j].result[1]
       IN  IF r.success /\ r.businesses /\ supabase = "client"
           THEN \E ok \in BOOLEAN :
                   jobs' = [jobs EXCEPT ![j].pc = "send", ![j].inserted = ok]
           ELSE jobs' = [jobs EXCEPT ![j].pc = "send"]
    /\ UNCHANGED << besidesServer, cacheVars, supabase >>

\* lines 289-304: the completion data are built and the webhook is sent;
\* nothing follows the call in the try block
SendCompletionWebhook(j) ==
    /\ jobs[j].pc = "send"
    /\ \E ok \in BOOLEAN :
          jobs' = [jobs EXCEPT
                     ![j].pc = IF webhook_returns(ok) THEN "ended" ELSE "except",
                     ![j].sends = @ + 1]
    /\ UNCHANGED << besidesServer, cacheVars, supabase >>

\* lines 306-315: a fault of the try block is logged and the failure
\* webhook is sent; the thread ends
SendFailureWebhook(j) ==
    /\ jobs[j].pc = "except"
    /\ jobs' = [jobs EXCEPT ![j].pc = "ended", ![j].sends = @ + 1]
    /\ UNCHANGED << besidesServer, cacheVars, supabase >>

NextJob ==
    \/ CreateClient
    \/ \E j \in Jobs : HandleScrapeJobAsync(j)
    \/ \E j \in Jobs : UpdateJobStatus(j)
    \/ \E j \in Jobs : RunAsync(j)
    \/ \E j \in Jobs : InsertBusinesses(j)
    \/ \E j \in Jobs : SendCompletionWebhook(j)
    \/ \E j \in Jobs : SendFailureWebhook(j)

SpecJob == InitJob /\ [][NextJob]_vars

\* every thread that can run does run: the background threads are never
\* starved, and every call of theirs returns or raises
SpecJobLive == SpecJob /\ WF_vars(NextJob)

(***************************************************************************)
(* The field parsers, each applied once to an argument drawn from a        *)
(* bounded set, in a run whose first attempt is in phase 2.                *)
(***************************************************************************)
\* the state around a parser call
ParserFrame ==
    /\ DetailIdle
    /\ caller = "waiting"
    /\ ScrollIdle
    /\ LoaderIdle
    /\ ExtractorIdle
    /\ SettleIdle
    /\ ServerIdle
    /\ FirstAttempt("p2_start")
    /\ search_term = "cafe"
    /\ max_retries = 0
    /\ max_results = 1
    /\ total_cards_loaded = 1

\* the words a search term is made of: the keywords of the mapping in
\* several letter cases, parts of keywords, and words that are no keyword
InferWords ==
    {"", "cafe", "Car Rental", "rent a", "car", "RESTAURANT", "Hotel",
     "pharmacy", "Pharmacy", "PHARMACY", "pharma", "hospital", "clinic",
     "Diagnostic Center", "bank", "Gas Station", "grocery"}

\* the search term typed as two words
TermOf(words) == words[1] \o " " \o words[2]

\* the two implementations of _infer_category
InferImpls == {"scraper", "extractor"}

InitCategory ==
    /\ ParserFrame
    /\ fn_pc = "called"
    /\ fn_arg \in [impl : InferImpls, words : InferWords \X InferWords]
    /\ fn_ret = None

\* google_maps_scraper.py lines 537-559
InferCategory ==
    /\ fn_pc = "called"
    /\ "impl" \in DOMAIN fn_arg
    /\ fn_arg.impl = "scraper"
    /\ fn_ret' = Some(infer_category(TermOf(fn_arg.words)))
    /\ fn_pc' = "returned"
    /\ UNCHANGED << besidesParser, fn_arg >>

\* data_extractor.py lines 419-440
InferCategoryExtractor ==
    /\ fn_pc = "called"
    /\ "impl" \in DOMAIN fn_arg
    /\ fn_arg.impl = "extractor"
    /\ fn_ret' = Some(infer_category_extractor(TermOf(fn_arg.words)))
    /\ fn_pc' = "returned"
    /\ UNCHANGED << besidesParser, fn_arg >>

NextCategory ==
    \/ InferCategory
    \/ InferCategoryExtractor

SpecCategory == InitCategory /\ [][NextCategory]_vars

(***************************************************************************)
(* The phone of a record.  The run takes it from the info elements of the  *)
(* detail pane (google_maps_scraper.py lines 431-447); the detail          *)
(* extractor takes it from the first element text that _is_valid_phone     *)
(* accepts (data_extractor.py lines 200-231, 356-379).                     *)
(***************************************************************************)
\* s.startswith(pre)
StartsWith(s, pre) == Len(s) >= Len(pre) /\ SubSeq(s, 1, Len(pre)) = pre

\* re.search(r'\d', s)
HasDigit(s) == \E k \in 1..Len(s) : IsDigit(Char(s, k))

RECURSIVE KeepDigitsPlus(_)
\* re.sub(r'[^\d\+]', '', s), data_extractor.py line 362
KeepDigitsPlus(s) ==
    IF s = "" THEN ""
    ELSE (IF IsDigit(Char(s, 1)) \/ Char(s, 1) = "+" THEN Char(s, 1) ELSE "")
         \o KeepDigitsPlus(SubSeq(s, 2, Len(s)))

\* _is_valid_phone, data_extractor.py lines 356-379
is_valid_phone(phone) ==
    IF phone = "" THEN FALSE
    ELSE LET digits == KeepDigitsPlus(phone)
         IN  IF StartsWith(digits, "+92") THEN Len(digits) >= 12
             ELSE IF StartsWith(digits, "92") THEN Len(digits) >= 11
             ELSE IF StartsWith(digits, "03") THEN Len(digits) = 11
             ELSE IF StartsWith(digits, "042") THEN Len(digits) >= 10
             ELSE Len(digits) >= 10 /\ Len(digits) <= 15

\* _format_phone, lines 381-387, when the formatting library rejects the
\* text: the trimmed original
format_phone(phone) == Strip(phone)

RECURSIVE extract_detail_phone(_)
\* _extract_detail_phone over the texts of the elements its selectors
\* find, in the order it visits them (lines 210-231); "" when none is valid
extract_detail_phone(texts) ==
    IF texts = <<>> THEN ""
    ELSE IF Head(texts) # "" /\ is_valid_phone(Head(texts))
         THEN format_phone(Head(texts))
         ELSE extract_detail_phone(Tail(texts))

\* business.get(key) is falsy
Unset(business, key) == key \notin DOMAIN business \/ business[key] = ""

\* lines 431-447, the body of the loop for one text
info_field(business, text) ==
    IF Unset(business, "address") /\ Contains(text, ",") /\ HasDigit(text)
    THEN ("address" :> text) @@ business
    ELSE IF Unset(business, "phone") /\ StartsWith(text, "+") /\ HasDigit(text)
    THEN ("phone" :> text) @@ business
    ELSE IF /\ Unset(business, "website")
            /\ Contains(text, ".")
            /\ ~Contains(text, " ")
            /\ ~StartsWith(text, "+")
    THEN ("website" :> (IF StartsWith(text, "http://") \/ StartsWith(text, "https://")
                        THEN text ELSE "https://" \o text)) @@ business
    ELSE business

RECURSIVE info_fields(_, _)
\* lines 431-447: the loop over info_texts, from the dict `business`
info_fields(business, info_texts) ==
    IF info_texts = <<>> THEN business
    ELSE info_fields(info_field(business, Head(info_texts)), Tail(info_texts))

\* the texts of the info elements of a detail pane, stripped and non-empty
\* (lines 424-426)
InfoTexts ==
    {"+1", "+92 300", "+123456789", "+92 300 1234567", "0300-1234567",
     "12 Mall Road, Lahore", "example.com", "Open 24 hours", "042 111"}

\* the two ways a phone is taken
PhoneImpls == {"scraper", "extractor"}

InitInfo ==
    /\ ParserFrame
    /\ fn_pc = "called"
    /\ fn_arg \in [impl : PhoneImpls,
                    texts : {<<>>} \cup {<<a>> : a \in InfoTexts}
                            \cup {<<a, b>> : a \in InfoTexts, b \in InfoTexts}]
    /\ fn_ret = None

\* google_maps_scraper.py lines 431-450: the record of a pane whose name is
\* "Inn", after the loop over its info texts
ProcessInfoTexts ==
    /\ fn_pc = "called"
    /\ "texts" \in DOMAIN fn_arg
    /\ fn_arg.impl = "scraper"
    /\ fn_ret' = Some(info_fields("name" :> "Inn", fn_arg.texts))
    /\ fn_pc' = "returned"
    /\ UNCHANGED << besidesParser, fn_arg >>

\* data_extractor.py line 150: detail_data['phone']
ExtractDetailPhone ==
    /\ fn_pc = "called"
    /\ "texts" \in DOMAIN fn_arg
    /\ fn_arg.impl = "extractor"
    /\ fn_ret' = Some("phone" :> extract_detail_phone(fn_arg.texts))
    /\ fn_pc' = "returned"
    /\ UNCHANGED << besidesParser, fn_arg >>

NextInfo ==
    \/ ProcessInfoTexts
    \/ ExtractDetailPhone

SpecInfo == InitInfo /\ [][NextInfo]_vars

(***************************************************************************)
(* The coordinates of a record: _extract_coordinates_from_url on the URL   *)
(* of the page (google_maps_scraper.py lines 515-535) and                  *)
(* _extract_coordinates on the links of the page (data_extractor.py lines  *)
(* 298-323), with the patterns of config.py lines 44-45.  A float is the   *)
(* exact decimal of its text, which is what float() gives for the short    *)
(* literals drawn here.                                                    *)
(***************************************************************************)
\* the first position from q on that holds no digit
DigitsEnd(s, q) ==
    CHOOSE e \in q..(Len(s) + 1) :
        /\ e = Len(s) + 1 \/ ~IsDigit(Char(s, e))
        /\ \A j \in q..(e - 1) : IsDigit(Char(s, j))

\* -?\d+\.?\d* matched at position p: the position after the match, 0 when
\* there is none.  The match is the longest one: in both patterns the group
\* is followed by '!', by ',' or by nothing, so no shorter match can succeed
\* where the longest fails.
NumberEnd(s, p) ==
    LET q == IF p <= Len(s) /\ Char(s, p) = "-" THEN p + 1 ELSE p
    IN  IF q > Len(s) THEN 0
        ELSE LET d1 == DigitsEnd(s, q)
                 d2 == IF d1 <= Len(s) /\ Char(s, d1) = "." THEN d1 + 1 ELSE d1
             IN  IF d1 = q THEN 0 ELSE DigitsEnd(s, d2)

\* the text lit stands at position p of s
LitAt(s, p, lit) ==
    /\ p >= 1
    /\ p + Len(lit) - 1 <= Len(s)
    /\ SubSeq(s, p, p + Len(lit) - 1) = lit

\* pre(-?\d+\.?\d*)mid(-?\d+\.?\d*)post matched at position p: the two
\* groups, or None
MatchAt(s, p, pre, mid, post) ==
    IF ~LitAt(s, p, pre) THEN None
    ELSE LET e1 == NumberEnd(s, p + Len(pre))
         IN  IF e1 = 0 \/ ~LitAt(s, e1, mid) THEN None
             ELSE LET e2 == NumberEnd(s, e1 + Len(mid))
                  IN  IF e2 = 0 \/ ~LitAt(s, e2, post) THEN None
                      ELSE Some(<< SubSeq(s, p + Len(pre), e1 - 1),
                                   SubSeq(s, e1 + Len(mid), e2 - 1) >>)

\* re.search: the match at the leftmost position that has one
re_search(s, pre, mid, post) ==
    LET at == {p \in 1..Len(s) : MatchAt(s, p, pre, mid, post) # None}
    IN  IF at = {} THEN None
        ELSE MatchAt(s, CHOOSE p \in at : \A r \in at : p <= r, pre, mid, post)

\* patterns["coordinates_3d4d"] and patterns["coordinates_at"]
search_3d4d(s) == re_search(s, "!3d", "!4d", "")
search_at(s) == re_search(s, "@", ",", ",")

\* the decimal a lies in [-bound, bound]
WithinBound(a, bound) ==
    /\ 0 - bound * Pow10(a.s) <= a.m
    /\ a.m <= bound * Pow10(a.s)

\* a validation that accepts every pair
validate_coordinates_any(lat, lng) == TRUE

\* _validate_coordinates, data_extractor.py lines 415-417 (inherited by the
\* scraper)
validate_coordinates(lat, lng) == WithinBound(lat, 90) /\ WithinBound(lng, 180)

\* lines 520-523 and 527-530: the floats of a match, when it is there and
\* validates
validated(match) ==
    IF match = None THEN None
    ELSE LET lat == ParseFloat(match[1][1])[1]
             lng == ParseFloat(match[1][2])[1]
         IN  IF validate_coordinates(lat, lng) THEN Some(<<lat, lng>>) ELSE None

\* _extract_coordinates_from_url: (lat, lng), or None for (None, None)
extract_coordinates_from_url(url) ==
    IF validated(search_3d4d(url)) # None THEN validated(search_3d4d(url))
    ELSE validated(search_at(url))

RECURSIVE extract_coordinates(_)
\* _extract_coordinates over the href values of the links of the page
extract_coordinates(hrefs) ==
    IF hrefs = <<>> THEN None
    ELSE IF /\ Contains(Head(hrefs), "maps")
            /\ extract_coordinates_from_url(Head(hrefs)) # None
         THEN extract_coordinates_from_url(Head(hrefs))
         ELSE extract_coordinates(Tail(hrefs))

\* the parts a URL is put together from
UrlHosts == {"https://www.google.com/maps/place/Inn/", "https://example.com/"}
AtParts == {"", "@31.5,74.3,15z", "@95,10,15z", "@-90,180.,15z", "@31.5,74.3"}
DataParts ==
    {"", "!3d31.48!4d74.38", "!3d91!4d74.38", "!3d-31.48!4d-181", "!3d-.5!4d7",
     "!3d12!4dx"}
Links == [host : UrlHosts, at : AtParts, data : DataParts]
MapsLinks == {l \in Links : l.host = "https://www.google.com/maps/place/Inn/"}

\* the links that may stand first on a page with two links
FirstLinks ==
    { [host |-> "https://example.com/", at |-> "@31.5,74.3,15z", data |-> ""],
      [host |-> "https://www.google.com/maps/place/Inn/", at |-> "@95,10,15z",
       data |-> "!3d91!4d74.38"],
      [host |-> "https://www.google.com/maps/place/Inn/", at |-> "@-90,180.,15z",
       data |-> "!3d12!4dx"] }

UrlOf(link) == link.host \o link.at \o "/data=!4m2" \o link.data

InitCoordinates ==
    /\ ParserFrame
    /\ fn_pc = "called"
    /\ fn_arg \in [impl : {"scraper"}, links : {<<l>> : l \in MapsLinks}]
                   \cup [impl : {"extractor"},
                         links : {<<l>> : l \in Links}
                                 \cup {<<f, l>> : f \in FirstLinks, l \in MapsLinks}]
    /\ fn_ret = None

\* the pair (lat, lng) as the two keys of the record
CoordinateKeys(pair) ==
    IF pair = None THEN [latitude |-> None, longitude |-> None]
    ELSE [latitude |-> Some(pair[1][1]), longitude |-> Some(pair[1][2])]

\* google_maps_scraper.py lines 453-456
ExtractCoordinatesFromUrl ==
    /\ fn_pc = "called"
    /\ "links" \in DOMAIN fn_arg
    /\ fn_arg.impl = "scraper"
    /\ fn_ret' = Some(CoordinateKeys(extract_coordinates_from_url(UrlOf(fn_arg.links[1]))))
    /\ fn_pc' = "returned"
    /\ UNCHANGED << besidesParser, fn_arg >>

\* data_extractor.py lines 155-157
ExtractCoordinates ==
    /\ fn_pc = "called"
    /\ "links" \in DOMAIN fn_arg
    /\ fn_arg.impl = "extractor"
    /\ fn_ret' = Some(CoordinateKeys(extract_coordinates(
                        [k \in 1..Len(fn_arg.links) |-> UrlOf(fn_arg.links[k])])))
    /\ fn_pc' = "returned"
    /\ UNCHANGED << besidesParser, fn_arg >>

NextCoordinates ==
    \/ ExtractCoordinatesFromUrl
    \/ ExtractCoordinates

SpecCoordinates == InitCoordinates /\ [][NextCoordinates]_vars

(***************************************************************************)
(* Properties.                                                             *)
(***************************************************************************)
Done == pc = "done"

\* every list of records the run holds or has returned
RecordLists ==
    {businesses, p2_businesses} \cup (IF Done THEN {result.businesses} ELSE {})

\* str.lower() of every name the model extracts (evaluated once)
LowerOf == [nm \in ExtractedNames |-> Lower(nm)]

\* C1: for every request and every sequence of engine outcomes the run ends
\* by returning a dictionary that has `success` and `businesses`; no
\* exception ever leaves scrape_single_search.
C1_AlwaysReturnsResult ==
    /\ pc # "raised"
    /\ Done => {"success", "businesses"} \subseteq DOMAIN result

\* C1 witness: a run in which every attempt ended in the exception handler
\* has returned its (failure) dictionary.
C1_Witness ==
    /\ Done
    /\ attempts = 2
    /\ last_error # None
    /\ blocked_attempts = 0
    /\ zero_attempts = 0
    /\ ~result.success

\* C2 (as claimed): every browser session created is released exactly once
\* on every exit path: close() and stop() are never called a second time on
\* it, and when the run has ended each has been called once.
C2_ReleasedExactlyOnce ==
    /\ \A k \in 1..Len(sessions) : sessions[k].closes <= 1 /\ sessions[k].stops <= 1
    /\ Done => \A k \in 1..Len(sessions) :
                  sessions[k].closes = 1 /\ sessions[k].stops = 1

\* C3 (as claimed): when the block check returned true on every attempt the
\* run made max_retries+1 attempts and returned success = false, an error
\* that mentions blocking, and businesses = [].
C3_PersistentBlock ==
    (Done /\ attempts >= 1 /\ blocked_attempts = attempts) =>
        /\ attempts = max_retries + 1
        /\ ~result.success
        /\ Contains(Lower(result.error), "block")
        /\ result.businesses = <<>>

\* C4 (as claimed): when every attempt loaded zero cards for the query and
\* all variations, the run returns, on the attempt with retry_count =
\* max_retries, success = true, businesses = [], total_found = 0 and no
\* error; and no success with cards_loaded = 0 is returned earlier.
C4_ZeroItems ==
    /\ (Done /\ attempts >= 1 /\ zero_attempts = attempts) =>
          /\ result.success
          /\ result.businesses = <<>>
          /\ "total_found" \in DOMAIN result
          /\ result.total_found = 0
          /\ "error" \notin DOMAIN result
          /\ result.retry_count = max_retries
    /\ (Done /\ result.success /\ result.cards_loaded = 0) =>
          result.retry_count = max_retries

C6_FailureCarriesAll ==
    (Done /\ ~result.success) =>
        /\ {"businesses", "retry_count", "error"} \subseteq DOMAIN result
        /\ result.error # ""

\* C7 (as claimed): each attempt starts with an empty businesses list, and
\* the records of a returned result were extracted by the attempt that
\* returned it.
C7_NoCarryOver ==
    /\ pc = "close_prev" => businesses = <<>>
    /\ (Done /\ result.businesses # <<>>) => biz_attempt = retry_count

\* C8: no two records of a list the run holds or returns have the same
\* lower-cased name.
C8_UniqueLowerNames ==
    \A list \in RecordLists :
        \A a, b \in 1..Len(list) :
            a # b => LowerOf[list[a].name] # LowerOf[list[b].name]

\* C8 witness: a run that read two cards whose names differ only in case
\* has skipped the second and returned one record.
C8_Witness ==
    Done /\ dup_skipped /\ result.success /\ Len(result.businesses) = 1

\* C9 (as claimed): every rating stored in a returned record lies in [0,5].
C9_RatingInRange ==
    Done => \A k \in 1..Len(result.businesses) :
                LET b == result.businesses[k]
                IN  ("rating" \in DOMAIN b /\ b.rating # None) =>
                        InRatingRange(b.rating[1])

\* whether an extracted name is blank (evaluated once)
BlankName == [nm \in ExtractedNames |-> Strip(nm) = ""]

\* the category texts the panes show, stripped, and the inferred category of
\* each search term (evaluated once)
ShownCategories == {Strip(p.category[1]) : p \in {q \in Panes : q.category # None}}
InferredFor == [t \in SearchTerms |-> infer_category(t)]

\* C10: every record the run holds or returns has a non-empty, non-blank
\* name and a non-empty category, which is a category text the page showed
\* or else the category inferred from the search term ("Business" when no
\* keyword matches).
C10_NameAndCategory ==
    \A list \in RecordLists :
        \A k \in 1..Len(list) :
            /\ list[k].name # ""
            /\ ~BlankName[list[k].name]
            /\ list[k].category # ""
            /\ \/ list[k].category \in ShownCategories
               \/ list[k].category = InferredFor[search_term]
            /\ InferredFor["cafe"] = "Business"

\* C10 witness: a returned record whose pane had no usable category carries
\* the inferred one, in a run that also read a pane with a blank name.
C10_Witness ==
    /\ Done
    /\ result.success
    /\ \E k \in 1..Len(result.businesses) :
          /\ result.businesses[k].name = "Inn"
          /\ result.businesses[k].category = infer_category(search_term)

(***************************************************************************)
(* Properties of the unfolded phase 2 (SpecPhase2).                        *)
(***************************************************************************)
InP2Loop == pc \in {"p2_card", "p2_wait", "p2_read", "p2_accept"}

RECURSIVE DedupFrom(_, _)
\* the dicts of `list` whose lower-cased name is not in `seen` nor carried by
\* an earlier dict of the list, in order
DedupFrom(list, seen) ==
    IF list = <<>> THEN <<>>
    ELSE IF NameKey[Head(list).name] \in seen
         THEN DedupFrom(Tail(list), seen)
         ELSE <<Head(list)>> \o DedupFrom(Tail(list), seen \cup {NameKey[Head(list).name]})

\* C11: in phase 2 a failure on an item (gone, click or query fault, render
\* timeout, failed extraction) never ends the loop: the indices whose
\* iteration has begun are 0, 1, 2, ... in order, each once; the list being
\* built is always the de-duplicated list of the dicts that passed the test
\* of line 334; and the loop is left only after all cards_to_process indices
\* were visited, handing the driver exactly that list.
C11_ItemFaultsSkipped ==
    /\ [](visited = [k \in 1..Len(visited) |-> k - 1])
    /\ [](InP2Loop =>
            /\ Len(visited) = i + (IF pc = "p2_card" THEN 0 ELSE 1)
            /\ p2_businesses = DedupFrom(succeeded, {}))
    /\ [][(InP2Loop /\ ~InP2Loop') =>
            /\ pc' = "close_ctx"
            /\ Len(visited) = cards_to_process
            /\ businesses' = DedupFrom(succeeded, {})]_vars

\* C11 witness: phase 2 visited two items, one of which failed, and handed
\* the driver the one record of the other.
C11_Witness ==
    /\ pc = "close_ctx"
    /\ Len(visited) = 2
    /\ Len(succeeded) = 1
    /\ businesses = succeeded

\* C12 (as claimed): at every card click of phase 2 no detail view is open.
C12_ClosedBeforeClick == open_at_click = -1

\* C13: the handle that was clicked in iteration i comes from the list
\* queried in iteration i, at position i, and no click or return to the
\* list was made between that query and the click.
C13_FreshHandle ==
    card # None =>
        /\ card[1].fetched_in = i
        /\ card[1].index = i
        /\ card[1].nav = nav_actions - 1

\* C13 witness: the second card was clicked after the detail view of the
\* first had been opened and the page returned to the list.
C13_Witness ==
    /\ pc = "p2_wait"
    /\ i = 1
    /\ card # None
    /\ nav_actions = 3

\* the list `records` holds, in order, exactly the records whose appends
\* `sources` recorded
FromSources(records) ==
    /\ Len(records) = Len(sources)
    /\ \A k \in 1..Len(records) : records[k].name = sources[k].name

\* C35: a response built from a fresh scrape reports from_cache = false and
\* a response served from the cache reports from_cache = true, however the
\* steps of the handler threads interleave.
C35_FromCacheFlag ==
    \A t \in Threads :
        handler[t].pc = "done" =>
            /\ handler[t].path = "fresh"
                  => handler[t].response[1].body.from_cache = FALSE
            /\ handler[t].path = "cache"
                  => handler[t].response[1].body.from_cache = TRUE

\* C36: a request is only ever served the cached result of its own
\* (search_term, area_name) pair.
C36_EntryOfOwnPair ==
    \A t \in Threads :
        handler[t].path = "cache" =>
            /\ dicts[handler[t].response_data].search_term
                  = handler[t].data[1].search_term
            /\ dicts[handler[t].response_data].area_name
                  = handler[t].data[1].area_name

\* C37: a response is served from the cache only to a request that did not
\* set bypass_cache, from a dict with success = true, and at an age below
\* 900 seconds; every entry of the cache holds a dict with success = true.
C37_CacheServesFreshSuccess ==
    /\ \A t \in Threads :
           handler[t].path = "cache" =>
               /\ ~handler[t].data[1].bypass_cache
               /\ dicts[handler[t].response_data].success
               /\ handler[t].age < 900
               /\ handler[t].pc = "done" => handler[t].response[1].body.success
    /\ \A k \in DOMAIN result_cache : dicts[result_cache[k].data].success

\* C37 witness: one thread scraped successfully and stored its result; 450
\* seconds later the other thread, asking for the same pair without
\* bypass_cache, was served the stored dict.
C37_Witness ==
    /\ handler["h1"].pc = "done"
    /\ handler["h1"].path = "fresh"
    /\ handler["h2"].pc = "done"
    /\ handler["h2"].path = "cache"
    /\ handler["h2"].age = 450
    /\ handler["h2"].data[1].search_term = handler["h1"].data[1].search_term
    /\ handler["h2"].data[1].area_name = handler["h1"].data[1].area_name
    /\ handler["h2"].response_data = handler["h1"].response_data
    /\ handler["h2"].response[1].body.success

\* C38: a request whose body has job_id and completion_webhook starts the
\* background thread, the thread calls requests.post at most once, has
\* called it exactly once when it has ended, and does end; a request without
\* either field starts no thread, changes no status and sends nothing.
C38_OneWebhookPerJob ==
    /\ [](\A j \in Jobs :
            /\ jobs[j].sends <= 1
            /\ jobs[j].pc = "ended" => jobs[j].sends = 1
            /\ jobs[j].thread <=>
                   /\ jobs[j].data # <<>>
                   /\ jobs[j].data[1].job_id # ""
                   /\ jobs[j].data[1].completion_webhook # ""
            /\ ~jobs[j].thread =>
                   /\ jobs[j].sends = 0
                   /\ jobs[j].status = "pending"
                   /\ jobs[j].pc \in {"idle", "rejected"})
    /\ \A j \in Jobs :
           jobs[j].thread ~> (jobs[j].pc = "ended" /\ jobs[j].sends = 1)

\* C38 witness: one job ended in the except block after run_async raised,
\* the other after a successful scrape whose insertion failed and whose
\* webhook was sent from the try block; each sent once.
C38_Witness ==
    /\ jobs["r1"].pc = "ended"
    /\ jobs["r1"].result = <<>>
    /\ jobs["r1"].sends = 1
    /\ jobs["r2"].pc = "ended"
    /\ jobs["r2"].result # <<>>
    /\ jobs["r2"].result[1].success
    /\ jobs["r2"].result[1].businesses
    /\ ~jobs["r2"].inserted
    /\ supabase = "client"
    /\ jobs["r2"].sends = 1

\* C39: a job whose status was set to 'running' eventually has the status
\* 'completed' or 'failed'.
C39_RunningJobEnds ==
    \A j \in Jobs :
        (jobs[j].status = "running")
            ~> (jobs[j].status \in {"completed", "failed"})

\* C34: no result and no list the run holds has more records than
\* max_results; while phase 2 runs its list has at most as many records as
\* items were processed, which are at most min(items present at its start,
\* max_results); the list the run takes over from phase 2 has at most as
\* many records as items were present when that phase 2 started; and a
\* success result carries total_found = number of its records.
C34_RecordsBounded ==
    /\ [](/\ Len(businesses) <= max_results
          /\ "businesses" \in DOMAIN result
                => Len(result.businesses) <= max_results
          /\ ("total_found" \in DOMAIN result /\ result.success)
                => result.total_found = Len(result.businesses)
          /\ (pc = "p2_card" /\ cards_to_process > 0)
                => /\ Len(p2_businesses) <= i
                   /\ i <= cards_to_process
                   /\ cards_to_process <= cards
                   /\ cards_to_process <= max_results)
    /\ [][/\ businesses' # businesses => Len(businesses') <= cards
          /\ (result' # result /\ "businesses" \in DOMAIN result')
                => result'.businesses \in {businesses, <<>>}]_vars

\* C34 witness: a success result with two records for a request that asked
\* for two.
C34_Witness ==
    /\ pc = "done"
    /\ max_results = 2
    /\ "total_found" \in DOMAIN result
    /\ result.success
    /\ result.total_found = 2
    /\ Len(result.businesses) = 2

C32_RejectedBeforeSession ==
    (search_term = "" \/ area_name = "") =>
        /\ sessions = <<>>
        /\ browser = 0
        /\ playwright = 0
        /\ context = 0
        /\ attempts = 0
        /\ pc \in {"start", "done"}
        /\ pc = "done" =>
              /\ result = [success |-> FALSE,
                           error |-> "search_term and area_name are required",
                           businesses |-> <<>>]

\* C32 witness: a request with a search term and an empty area name was
\* rejected.
C32_Witness ==
    /\ search_term # ""
    /\ area_name = ""
    /\ pc = "done"
    /\ result.success = FALSE
    /\ result.businesses = <<>>
    /\ sessions = <<>>

\* C31: the record that phase-2 iteration i is about to append was read
\* from the detail view of item i: when the extracted dict passes the test
\* of line 334 and its name is new, the detail view open in the page is the
\* one of item i, never one left open by an earlier item.
C31_RecordFromOwnItem ==
    (/\ pc = "p2_accept"
     /\ extraction_ok(p2_business[1])
     /\ NameKey[p2_business[1].name] \notin processed_names)
        => open_item = i

\* C22: the records of phase 2 stand in the order in which their items were
\* visited: the k-th record of the list being built, and of the list handed
\* to the driver, is the one appended k-th, each was appended in the
\* iteration of an index already visited, and these indices increase
\* strictly along the list.
C22_RecordsInVisitOrder ==
    /\ InP2Loop => FromSources(p2_businesses)
    /\ pc = "close_ctx" => FromSources(businesses)
    /\ \A k \in 1..Len(sources) :
          /\ \E v \in 1..Len(visited) : visited[v] = sources[k].item
          /\ \A j \in 1..(k - 1) : sources[j].item < sources[k].item

\* C22 witness: phase 2 handed the driver two records, the first from item
\* 0 and the second from item 1.
C22_Witness ==
    /\ pc = "close_ctx"
    /\ Len(businesses) = 2
    /\ sources[1].item = 0
    /\ sources[2].item = 1

(***************************************************************************)
(* Properties of the scroll loop (SpecScroll).                             *)
(***************************************************************************)
\* C14: the scroll loop runs at most 50 rounds whatever counts the page
\* shows, and the first round that reads a count >= target ends the loop
\* without scrolling: every earlier round scrolled once, that round did not.
C14_RoundsBounded ==
    /\ totalRounds <= 50
    /\ scrolls <= totalRounds
    /\ (totalRounds > 0 /\ count >= target) =>
          /\ js_pc # "loop"
          /\ scrolls = totalRounds - 1
    /\ (js_pc = "loop" \/ count < target) => scrolls = totalRounds

\* C14 witness: counts that kept growing held the loop for 50 rounds, and
\* it ended although the count had not been stable.
C14_Witness ==
    /\ js_pc = "returned"
    /\ totalRounds = 50
    /\ stableRounds < StableLimit
    /\ count < target

(***************************************************************************)
(* Properties of the loader calls (SpecLoader).                            *)
(***************************************************************************)
\* C15 (as claimed): a load call makes at most 3 container discoveries, with
\* a wait between two of them, and a call whose discoveries all failed
\* still reports the result cards that are on its page.
C15_DiscoveryFailureKeepsItems ==
    \A r \in Runs :
        /\ loader[r].finds <= 3
        /\ loader[r].waits <= loader[r].finds
        /\ (loader[r].pc = "returned" /\ loader[r].finds = 3
              /\ ~loader[r].container /\ ~loader[r].faulted) =>
                loader[r].loaded = page[r].cards

\* C19 (as claimed): no run reads the discovery flag as another run left
\* it, and a run in which no engine call raised returns what it returns
\* when it runs alone on the same page.
C19_RunsIndependent ==
    \A r \in Runs :
        /\ ~loader[r].foreign
        /\ (loader[r].pc = "returned" /\ ~loader[r].faulted) =>
                loader[r].loaded = LoadsAlone(page[r])

(***************************************************************************)
(* Properties of the run (Spec), continued.                                *)
(***************************************************************************)
\* C16: the search variations are tried only when the attempt loaded zero
\* cards, at most 3 of them and in order; trying one creates or closes no
\* session and starts no new attempt; the loop ends at the first variation
\* that loads a card or after the third; a fault in a variation moves on to
\* the next and never reaches the handler of the attempt.
C16_VariationsOnSameSession ==
    /\ [](pc = "variations" => variation \in 1..3 /\ total_cards_loaded = 0)
    /\ [][pc = "variations" =>
            /\ pc' \in {"variations", "after_variations"}
            /\ UNCHANGED << sessions, browser, playwright, context,
                            retry_count, attempts >>
            /\ (pc' = "variations" =>
                    variation' = variation + 1 /\ total_cards_loaded' = 0)
            /\ (pc' = "after_variations" =>
                    total_cards_loaded' > 0 \/ variation = 3)
            /\ (total_cards_loaded' > 0 => pc' = "after_variations")]_vars

\* C16 witness: the third variation is about to be tried on the session of
\* the second attempt.
C16_Witness ==
    /\ pc = "variations"
    /\ variation = 3
    /\ retry_count = 1
    /\ Len(sessions) = 2
    /\ context = 2

OnPage ==
    pc \in {"goto", "check_blocked", "phase1", "variations", "after_variations",
            "p2_start", "p2_card", "close_ctx"}

\* C21: whenever the run navigates or extracts, the page it drives belongs
\* to the browser session that the current attempt created: the context is
\* the one of the newest session, that session was launched in this attempt
\* and has not been closed; sessions are launched one per attempt at most,
\* in attempt order, and the handles are locals of the call.
C21_SessionOfThisAttempt ==
    /\ OnPage =>
          /\ context = browser
          /\ browser = Len(sessions)
          /\ sessions[browser].attempt = attempts
          /\ sessions[browser].closes = 0
    /\ \A k \in 1..Len(sessions) :
          /\ sessions[k].attempt <= attempts
          /\ \A j \in 1..(k - 1) : sessions[j].attempt < sessions[k].attempt

\* C21 witness: the second attempt is about to navigate, on the session it
\* created after the session of the first attempt was closed.
C21_Witness ==
    /\ pc = "goto"
    /\ attempts = 2
    /\ Len(sessions) = 2
    /\ sessions[1].closes = 1
    /\ sessions[2].attempt = 2

(***************************************************************************)
(* Properties of one attempt on a described page (SpecPage).               *)
(***************************************************************************)
\* the attempt went as on a well-formed page: no engine call of the loader
\* or of the driver raised, and phase 2, if it was called, visited
\* max_results items, each of which rendered and passed the test of line
\* 334 with a name no earlier item had
WellFormedRun ==
    /\ loader["A"].pc = "returned"
    /\ ~loader["A"].faulted
    /\ last_error = None
    /\ ~p2_faulted
    /\ biz_attempt # -1 =>
          /\ Len(visited) = max_results
          /\ Len(succeeded) = Len(visited)
          /\ ~dup_skipped

\* C23 (as claimed): a run with max_results = N on a page that exposes
\* exactly N result items, all well-formed, returns success = true with
\* exactly N records, each with a non-empty name and category, on the
\* first attempt.
C23_ExactMatch ==
    (Done /\ page["A"].cards = max_results /\ WellFormedRun) =>
        /\ result.success
        /\ attempts = 1
        /\ Len(result.businesses) = max_results
        /\ \A k \in 1..Len(result.businesses) :
              /\ result.businesses[k].name # ""
              /\ result.businesses[k].category # ""

(***************************************************************************)
(* Properties of the field parsers (SpecCategory).                         *)
(***************************************************************************)
\* the mapping each implementation of _infer_category carries
MappingOf ==
    [impl \in InferImpls |->
        IF impl = "scraper" THEN category_mappings ELSE category_mappings_extractor]

\* "pharmacy" as a user may type it
PharmacyForms == {"pharmacy", "Pharmacy", "PHARMACY"}

\* C24: _infer_category returns the category of the first keyword of its
\* mapping, in mapping order, that occurs in the lower-cased search term,
\* and "Business" when none occurs; a term with the word pharmacy in any
\* letter case and none of the keywords that precede 'pharmacy' in the
\* mapping gives "Pharmacy".
C24_FirstKeywordWins ==
    fn_pc = "returned" =>
        LET lowered == Lower(TermOf(fn_arg.words))
            m == MappingOf[fn_arg.impl]
            hit(k) == Contains(lowered, m[k][1])
            pharmacy == CHOOSE k \in 1..Len(m) : m[k][1] = "pharmacy"
        IN  /\ \A k \in 1..Len(m) :
                  (hit(k) /\ \A j \in 1..(k - 1) : ~hit(j)) => fn_ret = Some(m[k][2])
            /\ (\A k \in 1..Len(m) : ~hit(k)) => fn_ret = Some("Business")
            /\ ( /\ \E w \in 1..2 : fn_arg.words[w] \in PharmacyForms
                 /\ \A j \in 1..(pharmacy - 1) : ~hit(j) ) => fn_ret = Some("Pharmacy")

\* C24 witness: the term "PHARMACY bank", which also holds the later
\* keyword 'bank', gave "Pharmacy".
C24_Witness ==
    /\ fn_pc = "returned"
    /\ fn_arg.words = <<"PHARMACY", "bank">>
    /\ fn_ret = Some("Pharmacy")

RECURSIVE DigitCount(_)
\* the number of digits in s
DigitCount(s) ==
    IF s = "" THEN 0
    ELSE (IF IsDigit(Char(s, 1)) THEN 1 ELSE 0) + DigitCount(SubSeq(s, 2, Len(s)))

\* the fewest digits any heuristic of _is_valid_phone asks for: the general
\* one, "at least 10 digits" (data_extractor.py lines 378-379)
MinPhoneDigits == 10

\* C25 (as claimed): a text with fewer digits than every phone heuristic
\* requires is never stored as the phone of a record: a phone that is set
\* has at least MinPhoneDigits digits.
C25_ShortPhoneRejected ==
    ( /\ fn_pc = "returned"
      /\ "phone" \in DOMAIN fn_ret[1]
      /\ fn_ret[1].phone # "" ) =>
        DigitCount(fn_ret[1].phone) >= MinPhoneDigits

\* C30: every run of scrape_single_search ends: under fairness of its
\* steps the run reaches the state in which a result has been returned to
\* the caller, whatever the attempts, the discovery attempts, the
\* variations and the items do.
C30_RunTerminates == <>(pc = "done" /\ result # NoResult)

\* C30 witness: a run returned after two attempts, one found blocked and
\* one that loaded no card in phase 1 and in the search variations.
C30_Witness ==
    /\ pc = "done"
    /\ result # NoResult
    /\ attempts = 2
    /\ blocked_attempts = 1
    /\ zero_attempts = 1

\* C29: in every round of the scroll loop that does not reach the target,
\* the stability counter becomes 0 when the count read is greater than the
\* count read in the round before (0 before the first round), and grows by
\* 1 otherwise; this also where the count dropped a round earlier.
C29_ResetOnGrowth ==
    [][(js_pc = "loop" /\ totalRounds' = totalRounds + 1 /\ count' < target)
          => IF count' > count
             THEN stableRounds' = 0
             ELSE stableRounds' = stableRounds + 1]_vars

C27_LaterWaitLonger ==
    \A j, k \in DOMAIN settle_waits :
        j < k => settle_waits[k].wait > settle_waits[j].wait

\* C27 as amended: the settle wait of the attempt with retry_count = k lies
\* within 20% of 4000 + 1000 k milliseconds, and the waits of one run belong
\* to strictly increasing retry counts: the interval the wait is drawn from
\* moves up with every attempt, the wait itself need not.
C27_WaitWithinScaledBase ==
    /\ \A k \in DOMAIN settle_waits :
           /\ 8 * (4000 + 1000 * settle_waits[k].attempt) <= 10 * settle_waits[k].wait
           /\ 10 * settle_waits[k].wait <= 12 * (4000 + 1000 * settle_waits[k].attempt)
    /\ \A j, k \in DOMAIN settle_waits :
           j < k => settle_waits[j].attempt < settle_waits[k].attempt

\* C27 witness: a run whose second attempt waited a shorter time than its
\* first.
C27_Witness ==
    /\ Len(settle_waits) = 2
    /\ settle_waits[2].attempt = 1
    /\ settle_waits[2].wait < settle_waits[1].wait

\* what each URL part says, read by hand: the pair the pattern captures
\* as decimals m / 10^s, or None when the pattern does not match the part
PartCoordinates ==
    ("" :> None)
    @@ ("@31.5,74.3,15z" :> Some(<<[m |-> 315, s |-> 1], [m |-> 743, s |-> 1]>>))
    @@ ("@95,10,15z" :> Some(<<[m |-> 95, s |-> 0], [m |-> 10, s |-> 0]>>))
    @@ ("@-90,180.,15z" :> Some(<<[m |-> -90, s |-> 0], [m |-> 180, s |-> 0]>>))
    @@ ("@31.5,74.3" :> None)
    @@ ("!3d31.48!4d74.38" :> Some(<<[m |-> 3148, s |-> 2], [m |-> 7438, s |-> 2]>>))
    @@ ("!3d91!4d74.38" :> Some(<<[m |-> 91, s |-> 0], [m |-> 7438, s |-> 2]>>))
    @@ ("!3d-31.48!4d-181" :> Some(<<[m |-> -3148, s |-> 2], [m |-> -181, s |-> 0]>>))
    @@ ("!3d-.5!4d7" :> None)
    @@ ("!3d12!4dx" :> None)

\* the pair lies in [-90,90] x [-180,180]
InCoordinateRange(pair) ==
    /\ -90 * Pow10(pair[1].s) <= pair[1].m /\ pair[1].m <= 90 * Pow10(pair[1].s)
    /\ -180 * Pow10(pair[2].s) <= pair[2].m /\ pair[2].m <= 180 * Pow10(pair[2].s)

\* the pair a part contributes: the captured one when it is in range
Usable(part) ==
    IF PartCoordinates[part] # None /\ InCoordinateRange(PartCoordinates[part][1])
    THEN PartCoordinates[part] ELSE None

\* the pair expected of one URL: !3d..!4d.. before @..,..,
ExpectedOfLink(link) ==
    IF Usable(link.data) # None THEN Usable(link.data) ELSE Usable(link.at)

RECURSIVE ExpectedOfLinks(_, _)
\* the pair expected of the links of a page: the first link that gives one;
\* the detail extractor looks only at links that mention maps
ExpectedOfLinks(links, impl) ==
    IF links = <<>> THEN None
    ELSE IF /\ impl = "extractor" => Head(links).host # "https://example.com/"
            /\ ExpectedOfLink(Head(links)) # None
         THEN ExpectedOfLink(Head(links))
         ELSE ExpectedOfLinks(Tail(links), impl)

\* C26: the latitude and longitude returned are both null or both set and
\* in range; they are the pair of the first pattern (!3d..!4d.. before
\* @..,..,) whose match is in range, unchanged (an out-of-range match is
\* passed over, never clamped); without such a match both are null, and
\* the call returns in every case.
C26_CoordinatesInRange ==
    fn_pc = "returned" =>
        LET lat == fn_ret[1].latitude
            lng == fn_ret[1].longitude
            expected == ExpectedOfLinks(fn_arg.links, fn_arg.impl)
        IN  /\ (lat = None) <=> (lng = None)
            /\ lat # None => InCoordinateRange(<<lat[1], lng[1]>>)
            /\ IF expected = None THEN lat = None
               ELSE lat = Some(expected[1][1]) /\ lng = Some(expected[1][2])

\* C26 witness: a URL whose !3d..!4d.. pair is out of range (latitude 91)
\* gave the in-range pair of its @..,.., part.
C26_Witness ==
    /\ fn_pc = "returned"
    /\ "links" \in DOMAIN fn_arg
    /\ fn_arg.links[1].data = "!3d91!4d74.38"
    /\ fn_arg.links[1].at = "@31.5,74.3,15z"
    /\ fn_ret[1].latitude = Some([m |-> 315, s |-> 1])
    /\ fn_ret[1].longitude = Some([m |-> 743, s |-> 1])

(***************************************************************************)
(* Properties of the awaited run (SpecServer).                             *)
(***************************************************************************)
\* every browser session created so far had close() called on it
AllSessionsClosed == \A k \in 1..Len(sessions) : sessions[k].closes >= 1

\* C18 (as claimed): when the caller's timeout expires while the run is in
\* flight, the run is stopped and its browser session released with the
\* expiry, and once the caller has the timeout the run takes no further
\* step and makes no further session call.
C18_StoppedOnExpiry ==
    [][/\ (caller = "waiting" /\ caller' = "timeout") =>
              (pc' \in {"done", "cancelled"} /\ AllSessionsClosed')
       /\ caller = "timeout" => (pc' = pc /\ sessions' = sessions)]_vars

(***************************************************************************)
(* Properties of the detail extractor (SpecExtractor).                     *)
(***************************************************************************)
\* C17: when the render wait of a clicked card times out, the call ends at
\* once: the pane is force-closed, no field has been read, the dict returned
\* is the load-timeout error, and the card is not tried again (one timeout
\* per call, no click after it).
C17_TimeoutClosesAndReports ==
    x_timeouts > 0 =>
        /\ x_timeouts = 1
        /\ x_pc = "returned"
        /\ x_result = [error |-> "Detail pane load timeout"]
        /\ detail_data = <<>>
        /\ x_force_closes = attempt + 1
        /\ x_clicks <= attempt + 1

\* C17 witness: the render wait timed out in the second attempt on a card
\* whose first click had failed.
C17_Witness ==
    /\ x_timeouts = 1
    /\ attempt = 1
    /\ x_pc = "returned"
    /\ x_clicks = 2

====
